---- MODULE Spec2Model ----
(***************************************************************************)
(* Model of the gallerbench turn engine (src/gameLoop.ts): the             *)
(* single-player loop gameLoop, the round-robin loop multiplayerGameLoop   *)
(* and the generator/solver loop adversarialGameLoop, run against an       *)
(* abstract game (src/types.ts) and abstract participants.                 *)
(*                                                                         *)
(* The game state is opaque to the engine.  It is modelled as the sequence *)
(* of answers folded in by updateState so far, which is the most general   *)
(* state a game can hold.  A prompt is modelled by the state (and seat) it *)
(* was computed from.  Text is a sequence of one-character strings.        *)
(***************************************************************************)
EXTENDS Integers, Sequences, FiniteSets, TLC

\* ----------------------------------------------------------------- bounds
\* Largest number of evaluateStatus calls a game needs to leave Ongoing.
MaxCalls == 3
\* Largest seat count and largest participant list.
MaxSeats == 3
\* Largest number of iterations of a benchmark.
MaxIterations == 2

\* ------------------------------------------------------------ value sets
Ongoing == "Ongoing"
Win == "Win"
Loss == "Loss"
Draw == "Draw"
GameStatus == {Win, Loss, Draw, Ongoing}

\* Characters String.prototype.trim removes (those the model uses).
WhiteSpace == {" ", "\n"}

\* Raw replies a participant under test may give.
RawReplies == {<<"x">>, <<" ", "y">>}

\* The auxiliary participant models["GPT-4o"], called with top_p 0.01: its
\* reply is a function of the raw text it is shown.
AuxParticipants ==
    {[r \in RawReplies |-> IF r = <<"x">> THEN <<"x">> ELSE <<" ", "z", "\n">>],
     [r \in RawReplies |-> IF r = <<"x">> THEN <<"\n", "z", " ">> ELSE <<"y">>]}

\* The shapes of game.answerParserPrompt: left out, null, "", a string, a
\* function of the state.
ParserKinds == {"undefined", "null", "empty", "string", "function"}

\* A check for undefined instead of a truthiness test.
TruthyUnlessUndefined(p) == p # "undefined"

\* JavaScript truthiness of game.answerParserPrompt.
Truthy(p) == p \in {"string", "function"}

VARIABLES
    mode,         \* which loop runs: "single", "multi" or "adversarial"
    pc,           \* position of the loop
    game,         \* the game (generatorGame in adversarialGameLoop)
    solverGame,   \* adversarialGameLoop's solverGame
    models,       \* multiplayerGameLoop's participant list
    auxModel,     \* the behaviour of models["GPT-4o"]
    chat,         \* gameLoop's conversation
    chats,        \* multiplayerGameLoop's conversations, one per participant
    genChat,      \* adversarialGameLoop's generator conversation
    solChat,      \* adversarialGameLoop's solver conversation
    state,        \* the game state
    status,       \* status (generatorStatus in adversarialGameLoop)
    player,       \* multiplayerGameLoop's loop variable
    response,     \* the last reply message
    parsed,       \* parsedFirst / parsedTurn / parsedAnswer
    trace,        \* history: every call the engine made, in order
    winner,       \* multiplayerGameLoop's winner
    winnerCalls,  \* history: how often game.winner was called
    thrown,       \* the error the loop's promise rejects with, or "none"
    chatsFile     \* what multiplayerGameLoop last wrote to out/chats.json

vars == <<mode, pc, game, solverGame, models, auxModel, chat, chats, genChat,
          solChat, state, status, player, response, parsed, trace, winner,
          winnerCalls, thrown, chatsFile>>

\* ------------------------------------------------------------- helpers
Last(s) == s[Len(s)]

RECURSIVE TrimStart(_)
TrimStart(s) ==
    IF s # <<>> /\ Head(s) \in WhiteSpace THEN TrimStart(Tail(s)) ELSE s

RECURSIVE TrimEnd(_)
TrimEnd(s) ==
    IF s # <<>> /\ Last(s) \in WhiteSpace
    THEN TrimEnd(SubSeq(s, 1, Len(s) - 1)) ELSE s

\* String.prototype.trim
Trim(s) == TrimEnd(TrimStart(s))

\* Positions of the history that hold a call of the given operation.
Events(op) == {i \in 1..Len(trace) : trace[i].op = op}
Count(op) == Cardinality(Events(op))

\* A game as the engine sees it (Game and MultiplayerGame of src/types.ts).
\* players = "dynamic" is the flag dynamic (players is then 0 and unused).
\* shouldSkip is a pure function of the state and the seat: the seats in
\* skipSeats are reported inactive always, only before the first move, or
\* only after it (skipWhen).
Games ==
    [answerParserPrompt : ParserKinds,
     dynamic : BOOLEAN,
     players : 0..MaxSeats,
     hasShouldSkip : BOOLEAN,
     skipSeats : SUBSET (0..(MaxSeats - 1)),
     skipWhen : {"always", "start", "later"}]

NoMessage == [role |-> "none", content |-> <<>>]

\* game.prompts.first / game.prompts.turn: a string or a function of the
\* state (and the seat); the text is modelled by what it was computed from.
PromptText(g, kind, st) == [game |-> g, kind |-> kind, state |-> st]
\* A seat prompt computed from the state as it was before the latest move.
SeatPromptTextStale(kind, st, seat) ==
    [kind |-> kind,
     state |-> IF st = <<>> THEN st ELSE SubSeq(st, 1, Len(st) - 1),
     seat |-> seat]
SeatPromptText(kind, st, seat) == [kind |-> kind, state |-> st, seat |-> seat]

UserMessage(content) == [role |-> "user", content |-> content]
AssistantMessage(content) == [role |-> "assistant", content |-> content]

\* game.evaluateStatus: any status, but a game leaves Ongoing at the latest
\* on its MaxCalls-th call.
StatusResults ==
    IF Count("evaluateStatus") + 1 >= MaxCalls THEN GameStatus \ {Ongoing}
    ELSE GameStatus

\* getParsedResponse: the fixed participant models["GPT-4o"] gets a system
\* message with the parser prompt and a user message with the raw output;
\* the result is its reply, trimmed.
AuxModel == "GPT-4o"
ParserConversation(answerParser, input) ==
    <<[role |-> "system", content |-> answerParser],
      [role |-> "user", content |-> input]>>
GetParsedResponseUntrimmed(auxContent) == auxContent
\* An extraction that keeps a count of its calls and marks its result with it.
GetParsedResponseCounting(auxContent) ==
    Trim(auxContent) \o [i \in 1..Count("extract") |-> "!"]
GetParsedResponse(auxContent) == Trim(auxContent)

\* parseAnswer's parserPrompt: the function applied to the state, or the
\* string itself.
ParserPrompt(g, st) ==
    IF g.answerParserPrompt = "function"
    THEN [parser |-> "function", state |-> st]
    ELSE [parser |-> "string", state |-> <<>>]

\* A loop that goes on to the next prompt once the answer is extracted,
\* without folding it in.
ParseStepThenPrompt(g, newpc) ==
    /\ parsed' = response.content
    /\ trace' = trace
    /\ pc' = IF newpc = "g_update" THEN "g_turn"
             ELSE IF newpc = "m_update" THEN "m_for"
             ELSE newpc

\* The ternary at the call sites followed by parseAnswer: with a truthy
\* answerParserPrompt the auxiliary participant is called and its trimmed
\* reply is the answer; otherwise the raw reply is.
ParseStep(g, newpc) ==
    /\ IF Truthy(g.answerParserPrompt)
       THEN LET aux == auxModel[response.content]
            IN /\ parsed' = GetParsedResponse(aux)
               /\ trace' = Append(trace,
                     [op |-> "extract", model |-> AuxModel,
                      conv |-> ParserConversation(ParserPrompt(g, state),
                                                  response.content),
                      reply |-> aux,
                      result |-> GetParsedResponse(aux)])
       ELSE /\ parsed' = response.content
            /\ trace' = trace
    /\ pc' = newpc

\* ------------------------------------------------------------ gameLoop
\* Lines 118-128 and 143-151: push the first or the turn prompt and call
\* model.complete(chat).
GPrompt ==
    /\ mode = "single"
    /\ pc \in {"g_first", "g_turn"}
    /\ LET kind == IF pc = "g_first" THEN "first" ELSE "turn"
           msg == UserMessage(PromptText("game", kind, state))
       IN /\ chat' = Append(chat, msg)
          /\ trace' = Append(trace,
                [op |-> "complete", seat |-> 0, conv |-> Append(chat, msg)])
    /\ pc' = "g_reply"
    /\ UNCHANGED <<chatsFile, thrown, winner, winnerCalls,
                   mode, game, solverGame, models, auxModel, chats, genChat,
                   solChat, state, status, player, response, parsed>>

\* Lines 128-132 and 151-155: the reply arrives and is pushed.
GReply ==
    /\ mode = "single"
    /\ pc = "g_reply"
    /\ \E r \in RawReplies :
         /\ response' = AssistantMessage(r)
         /\ chat' = Append(chat, AssistantMessage(r))
         /\ trace' = Append(trace,
               [op |-> "reply", seat |-> 0, message |-> AssistantMessage(r)])
    /\ pc' = "g_parse"
    /\ UNCHANGED <<chatsFile, thrown, winner, winnerCalls,
                   mode, game, solverGame, models, auxModel, chats, genChat,
                   solChat, state, status, player, parsed>>

\* Lines 134-136 and 157-164.
GParse ==
    /\ mode = "single"
    /\ pc = "g_parse"
    /\ ParseStep(game, "g_update")
    /\ UNCHANGED <<chatsFile, thrown, winner, winnerCalls,
                   mode, game, solverGame, models, auxModel, chat, chats,
                   genChat, solChat, state, status, player, response>>

\* Lines 137 and 165: state = await game.updateState(state, parsed).
GUpdate ==
    /\ mode = "single"
    /\ pc = "g_update"
    /\ state' = Append(state, [game |-> "game", answer |-> parsed])
    /\ trace' = Append(trace,
          [op |-> "updateState", game |-> "game", answer |-> parsed])
    /\ pc' = "g_evaluate"
    /\ UNCHANGED <<chatsFile, thrown, winner, winnerCalls,
                   mode, game, solverGame, models, auxModel, chat, chats,
                   genChat, solChat, status, player, response, parsed>>

\* Lines 139 and 166: status = await game.evaluateStatus(state).
GEvaluate ==
    /\ mode = "single"
    /\ pc = "g_evaluate"
    /\ \E s \in StatusResults :
         /\ status' = s
         /\ trace' = Append(trace,
               [op |-> "evaluateStatus", game |-> "game", result |-> s])
    /\ pc' = "g_while"
    /\ UNCHANGED <<chatsFile, thrown, winner, winnerCalls,
                   mode, game, solverGame, models, auxModel, chat, chats,
                   genChat, solChat, state, player, response, parsed>>

\* A loop that only stops on a win.
LoopConditionUntilWin(s) == s # Win

\* Line 142: the condition of while (status === GameStatus.Ongoing).
LoopCondition(s) == s = Ongoing

\* Line 142: while (status === GameStatus.Ongoing); lines 173-180 after it.
GWhile ==
    /\ mode = "single"
    /\ pc = "g_while"
    /\ pc' = IF LoopCondition(status) THEN "g_turn" ELSE "done"
    /\ UNCHANGED <<chatsFile, thrown, winner, winnerCalls,
                   mode, game, solverGame, models, auxModel, chat, chats,
                   genChat, solChat, state, status, player, response, parsed,
                   trace>>

\* ------------------------------------------------- multiplayerGameLoop
\* Line 211: game.players === "dynamic" ? models.length : game.players
SeatCount == IF game.dynamic THEN Len(models) ELSE game.players

\* The game's shouldSkip(state, player).
ShouldSkip(st, seat) ==
    /\ seat \in game.skipSeats
    /\ CASE game.skipWhen = "always" -> TRUE
         [] game.skipWhen = "start" -> st = <<>>
         [] game.skipWhen = "later" -> st # <<>>

\* An engine that never consults shouldSkip.
SkipCheckNever(st, seat) == FALSE

\* Line 217: game.shouldSkip && game.shouldSkip(state, player)
SkipCheck(st, seat) == game.hasShouldSkip /\ ShouldSkip(st, seat)

\* A loop that steps over every other seat.
NextPlayerTwice(p) == p + 2

\* Line 212: player++
NextPlayer(p) == p + 1

\* An engine that sends the first prompt to every seat that acts while the
\* game state is still the initial one, and the turn prompt otherwise.
SeatPromptKindByState(conv) == IF state = <<>> THEN "first" ELSE "turn"

\* Line 226: chats[player].length === 0 selects the first prompt.
SeatPromptKind(conv) == IF Len(conv) = 0 THEN "first" ELSE "turn"

\* Line 270: let winner = -1.
NoWinner == -1

\* What game.winner may return: a player number.
WinnerResults == 0..1

\* A winner call for every final status.
CallWinnerAlways(s) == TRUE

\* Line 271: if (status !== GameStatus.Draw).
CallWinner(s) == s # Draw

\* Line 207: while (status === GameStatus.Ongoing); the for loop starts
\* with player = 0.  After the loop lines 270-281 set winner to -1, call
\* game.winner(state) unless the status is Draw, and return.
MWhile ==
    /\ mode = "multi"
    /\ pc = "m_while"
    /\ IF status = Ongoing
       THEN /\ player' = 0
            /\ pc' = "m_for"
            /\ UNCHANGED <<chatsFile, winner, winnerCalls>>
       ELSE /\ player' = player
            /\ pc' = "done"
            /\ IF CallWinner(status)
               THEN /\ winner' \in WinnerResults
                    /\ winnerCalls' = winnerCalls + 1
               ELSE /\ winner' = NoWinner
                    /\ winnerCalls' = winnerCalls
    /\ UNCHANGED <<chatsFile, thrown,
                   mode, game, solverGame, models, auxModel, chat, chats,
                   genChat, solChat, state, status, response, parsed, trace>>

\* A sink that writes an empty conversation for every seat.
WriteChatsEmpty(cs) == [i \in DOMAIN cs |-> <<>>]

\* Lines 264-267: Deno.writeTextFile("out/chats.json",
\* JSON.stringify(chats)) after the for loop, whether it ran to its end or
\* was left by the break.
WriteChats(cs) == cs

\* Lines 208-250, one pass of the for loop up to the call of complete:
\*  - the loop condition fails: the round is over, lines 264-267 write the
\*    transcript and the while condition is next;
\*  - the seat is skipped (lines 217-223): continue with player++;
\*  - player >= models.length: chats[player] is undefined and reading its
\*    length (line 226) throws a TypeError;
\*  - otherwise the first prompt (empty conversation) or the turn prompt is
\*    pushed to chats[player] and models[player].complete(chats[player]) is
\*    called.
MSeat ==
    /\ mode = "multi"
    /\ pc = "m_for"
    /\ IF player >= SeatCount
       THEN /\ pc' = "m_while"
            /\ chatsFile' = WriteChats(chats)
            /\ UNCHANGED <<player, chats, trace, thrown>>
       ELSE IF SkipCheck(state, player)
       THEN /\ player' = NextPlayer(player)
            /\ pc' = "m_for"
            /\ UNCHANGED <<chatsFile, chats, trace, thrown>>
       ELSE IF player >= Len(models)
       THEN /\ pc' = "error"
            /\ thrown' = "TypeError"
            /\ UNCHANGED <<chatsFile, player, chats, trace>>
       ELSE LET kind == SeatPromptKind(chats[player])
                msg == UserMessage(SeatPromptText(kind, state, player))
                conv == Append(chats[player], msg)
            IN /\ chats' = [chats EXCEPT ![player] = conv]
               /\ trace' = Append(trace,
                     [op |-> "complete", seat |-> player, conv |-> conv])
               /\ pc' = "m_reply"
               /\ player' = player
               /\ thrown' = thrown
               /\ chatsFile' = chatsFile
    /\ UNCHANGED <<winner, winnerCalls,
                   mode, game, solverGame, models, auxModel, chat, genChat,
                   solChat, state, status, response, parsed>>

\* A reply that replaces the last message of the conversation.
PushReplyOverwrite(cs, seat, msg) ==
    [cs EXCEPT ![seat] = Append(SubSeq(@, 1, Len(@) - 1), msg)]

\* A reply that lands in the first seat's conversation.
PushReplyFirstSeat(cs, seat, msg) == [cs EXCEPT ![0] = Append(@, msg)]

\* Line 252: chats[player].push(response)
PushReply(cs, seat, msg) == [cs EXCEPT ![seat] = Append(@, msg)]

\* Lines 250-252: the reply arrives and is pushed to chats[player].
MReply ==
    /\ mode = "multi"
    /\ pc = "m_reply"
    /\ \E r \in RawReplies :
         /\ response' = AssistantMessage(r)
         /\ chats' = PushReply(chats, player, AssistantMessage(r))
         /\ trace' = Append(trace,
               [op |-> "reply", seat |-> player,
                message |-> AssistantMessage(r)])
    /\ pc' = "m_parse"
    /\ UNCHANGED <<chatsFile, thrown, winner, winnerCalls,
                   mode, game, solverGame, models, auxModel, chat, genChat,
                   solChat, state, status, player, parsed>>

\* Lines 254-256.
MParse ==
    /\ mode = "multi"
    /\ pc = "m_parse"
    /\ ParseStep(game, "m_update")
    /\ UNCHANGED <<chatsFile, thrown, winner, winnerCalls,
                   mode, game, solverGame, models, auxModel, chat, chats,
                   genChat, solChat, state, status, player, response>>

\* Line 257: state = await game.updateState(state, parsedAnswer, player).
MUpdate ==
    /\ mode = "multi"
    /\ pc = "m_update"
    /\ state' = Append(state,
          [game |-> "game", answer |-> parsed, seat |-> player])
    /\ trace' = Append(trace,
          [op |-> "updateState", game |-> "game", answer |-> parsed,
           seat |-> player])
    /\ pc' = "m_evaluate"
    /\ UNCHANGED <<chatsFile, thrown, winner, winnerCalls,
                   mode, game, solverGame, models, auxModel, chat, chats,
                   genChat, solChat, status, player, response, parsed>>

\* A loop that looks at the status only at the end of a round.
BreakRoundNever(s) == FALSE

\* Lines 260-262: break out of the for loop unless the status is Ongoing.
BreakRound(s) == s # Ongoing

\* Lines 258-267: status = await game.evaluateStatus(state), then break
\* (the round is over and the transcript is written) or player++.
MEvaluate ==
    /\ mode = "multi"
    /\ pc = "m_evaluate"
    /\ \E s \in StatusResults :
         /\ status' = s
         /\ trace' = Append(trace,
               [op |-> "evaluateStatus", game |-> "game", result |-> s])
         /\ IF BreakRound(s)
            THEN /\ player' = player
                 /\ pc' = "m_while"
                 /\ chatsFile' = WriteChats(chats)
            ELSE /\ player' = NextPlayer(player)
                 /\ pc' = "m_for"
                 /\ chatsFile' = chatsFile
    /\ UNCHANGED <<thrown, winner, winnerCalls,
                   mode, game, solverGame, models, auxModel, chat, chats,
                   genChat, solChat, state, response, parsed>>

\* ------------------------------------------------- adversarialGameLoop
\* In the history the generator participant is seat 0 and the solver
\* participant seat 1.
\* Lines 316-329 and 341-352: push the generator game's first or turn
\* prompt to genChat and call generatorModel.complete(genChat).
AGenPrompt ==
    /\ mode = "adversarial"
    /\ pc \in {"a_first", "a_turn"}
    /\ LET kind == IF pc = "a_first" THEN "first" ELSE "turn"
           msg == UserMessage(PromptText("generatorGame", kind, state))
       IN /\ genChat' = Append(genChat, msg)
          /\ trace' = Append(trace,
                [op |-> "complete", seat |-> 0, conv |-> Append(genChat, msg)])
    /\ pc' = IF pc = "a_first" THEN "a_first_reply" ELSE "a_turn_reply"
    /\ UNCHANGED <<chatsFile, thrown, winner, winnerCalls,
                   mode, game, solverGame, models, auxModel, chat, chats,
                   solChat, state, status, player, response, parsed>>

\* Lines 326-333 and 349-353: the generator's reply arrives and is pushed.
AGenReply ==
    /\ mode = "adversarial"
    /\ pc \in {"a_first_reply", "a_turn_reply"}
    /\ \E r \in RawReplies :
         /\ response' = AssistantMessage(r)
         /\ genChat' = Append(genChat, AssistantMessage(r))
         /\ trace' = Append(trace,
               [op |-> "reply", seat |-> 0, message |-> AssistantMessage(r)])
    /\ pc' = IF pc = "a_first_reply" THEN "a_first_update" ELSE "a_turn_update"
    /\ UNCHANGED <<chatsFile, thrown, winner, winnerCalls,
                   mode, game, solverGame, models, auxModel, chat, chats,
                   solChat, state, status, player, parsed>>

\* The answer adversarialGameLoop hands to updateState (lines 334, 358 and
\* 381): the reply's content.
AdversarialAnswer(g, msg) == msg.content

\* Lines 334 and 356-359:
\* state = await generatorGame.updateState(state, generatorResponse.content)
AGenUpdate ==
    /\ mode = "adversarial"
    /\ pc \in {"a_first_update", "a_turn_update"}
    /\ LET answer == AdversarialAnswer(game, response)
       IN /\ state' = Append(state,
                [game |-> "generatorGame", answer |-> answer])
          /\ trace' = Append(trace,
                [op |-> "updateState", game |-> "generatorGame",
                 answer |-> answer])
    /\ pc' = IF pc = "a_first_update" THEN "a_first_evaluate"
             ELSE "a_sol_prompt"
    /\ UNCHANGED <<chatsFile, thrown, winner, winnerCalls,
                   mode, game, solverGame, models, auxModel, chat, chats,
                   genChat, solChat, status, player, response, parsed>>

\* Line 335: generatorStatus = await generatorGame.evaluateStatus(state)
AGenEvaluate ==
    /\ mode = "adversarial"
    /\ pc = "a_first_evaluate"
    /\ \E s \in StatusResults :
         /\ status' = s
         /\ trace' = Append(trace,
               [op |-> "evaluateStatus", game |-> "generatorGame",
                result |-> s])
    /\ pc' = "a_while"
    /\ UNCHANGED <<chatsFile, thrown, winner, winnerCalls,
                   mode, game, solverGame, models, auxModel, chat, chats,
                   genChat, solChat, state, player, response, parsed>>

\* Line 339: while (generatorStatus === GameStatus.Ongoing); lines 387-397
\* follow the loop.
AWhile ==
    /\ mode = "adversarial"
    /\ pc = "a_while"
    /\ pc' = IF status = Ongoing THEN "a_turn" ELSE "done"
    /\ UNCHANGED <<chatsFile, thrown, winner, winnerCalls,
                   mode, game, solverGame, models, auxModel, chat, chats,
                   genChat, solChat, state, status, player, response, parsed,
                   trace>>

\* A solver conversation that grows from round to round.
SolChatAccumulated(old, msg) == Append(old, msg)

\* Lines 368-371: solChat = [{content: solTurnPrompt, role: "user"}].
SolChatReset(old, msg) == <<msg>>

\* Lines 361-377: solChat is re-initialized to the solver game's turn
\* prompt alone and solverModel.complete(solChat) is called.
ASolPrompt ==
    /\ mode = "adversarial"
    /\ pc = "a_sol_prompt"
    /\ LET msg == UserMessage(PromptText("solverGame", "turn", state))
       IN /\ solChat' = SolChatReset(solChat, msg)
          /\ trace' = Append(trace,
                [op |-> "complete", seat |-> 1,
                 conv |-> SolChatReset(solChat, msg)])
    /\ pc' = "a_sol_reply"
    /\ UNCHANGED <<chatsFile, thrown, winner, winnerCalls,
                   mode, game, solverGame, models, auxModel, chat, chats,
                   genChat, state, status, player, response, parsed>>

\* Lines 374-378: the solver's reply arrives and is pushed to solChat.
ASolReply ==
    /\ mode = "adversarial"
    /\ pc = "a_sol_reply"
    /\ \E r \in RawReplies :
         /\ response' = AssistantMessage(r)
         /\ solChat' = Append(solChat, AssistantMessage(r))
         /\ trace' = Append(trace,
               [op |-> "reply", seat |-> 1, message |-> AssistantMessage(r)])
    /\ pc' = "a_sol_update"
    /\ UNCHANGED <<chatsFile, thrown, winner, winnerCalls,
                   mode, game, solverGame, models, auxModel, chat, chats,
                   genChat, state, status, player, parsed>>

\* Line 381:
\* state = await solverGame.updateState(state, solverResponse.content)
ASolUpdate ==
    /\ mode = "adversarial"
    /\ pc = "a_sol_update"
    /\ LET answer == AdversarialAnswer(solverGame, response)
       IN /\ state' = Append(state, [game |-> "solverGame", answer |-> answer])
          /\ trace' = Append(trace,
                [op |-> "updateState", game |-> "solverGame",
                 answer |-> answer])
    /\ pc' = "a_sol_evaluate"
    /\ UNCHANGED <<chatsFile, thrown, winner, winnerCalls,
                   mode, game, solverGame, models, auxModel, chat, chats,
                   genChat, solChat, status, player, response, parsed>>

\* Line 384: generatorStatus = await solverGame.evaluateStatus(state)
ASolEvaluate ==
    /\ mode = "adversarial"
    /\ pc = "a_sol_evaluate"
    /\ \E s \in StatusResults :
         /\ status' = s
         /\ trace' = Append(trace,
               [op |-> "evaluateStatus", game |-> "solverGame",
                result |-> s])
    /\ pc' = "a_while"
    /\ UNCHANGED <<chatsFile, thrown, winner, winnerCalls,
                   mode, game, solverGame, models, auxModel, chat, chats,
                   genChat, solChat, state, player, response, parsed>>

\* ------------------------------------------------------- thrown errors
\* The call a loop is awaiting at a position, "none" if there is none.
PendingCall(p) ==
    IF p \in {"g_reply", "m_reply", "a_first_reply", "a_turn_reply",
              "a_sol_reply"} THEN "complete"
    ELSE IF p \in {"g_parse", "m_parse"} THEN "extract"
    ELSE IF p \in {"g_update", "m_update", "a_first_update", "a_turn_update",
                   "a_sol_update"} THEN "updateState"
    ELSE IF p \in {"g_evaluate", "m_evaluate", "a_first_evaluate",
                   "a_sol_evaluate"} THEN "evaluateStatus"
    ELSE "none"

\* The error a callee raises: a backend failure from a participant, a
\* rule violation from the game.
Raised(callee) ==
    IF callee \in {"complete", "extract"} THEN "BackendError" ELSE "GameError"

\* A loop that catches the error and throws a new one in its place.
PropagateWrapped(e) == "Error"

\* None of the three loops has a try/catch: the rejection of the awaited
\* call is the rejection of the loop's own promise.
Propagate(e) == e

\* The awaited call throws (or its promise rejects): the loop is left at
\* once and its promise rejects.  Extraction is awaited only with a truthy
\* answerParserPrompt.
Throw ==
    /\ PendingCall(pc) # "none"
    /\ PendingCall(pc) = "extract" => Truthy(game.answerParserPrompt)
    /\ LET e == Raised(PendingCall(pc))
       IN /\ trace' = Append(trace,
                [op |-> "throw", callee |-> PendingCall(pc), error |-> e])
          /\ thrown' = Propagate(e)
    /\ pc' = "error"
    /\ UNCHANGED <<chatsFile, winner, winnerCalls,
                   mode, game, solverGame, models, auxModel, chat, chats,
                   genChat, solChat, state, status, player, response, parsed>>

\* --------------------------------------------------------- specification
NoGame == [answerParserPrompt |-> "undefined", dynamic |-> FALSE,
           players |-> 0, hasShouldSkip |-> FALSE, skipSeats |-> {},
           skipWhen |-> "always"]

\* Games of the single-player kind: answerParserPrompt is all that varies.
SingleGames ==
    {g \in Games : /\ ~g.dynamic /\ g.players = 0
                   /\ ~g.hasShouldSkip /\ g.skipSeats = {}
                   /\ g.skipWhen = "always"}

\* The auxiliary participant matters only to a game that has it called.
AuxFor(g) ==
    IF Truthy(g.answerParserPrompt) THEN AuxParticipants
    ELSE {CHOOSE a \in AuxParticipants : a[<<"x">>] = <<"x">>}

\* Lines 114-116.
InitSingle ==
    /\ mode = "single"
    /\ pc = "g_first"
    /\ game \in SingleGames
    /\ solverGame = NoGame
    /\ models = <<0>>
    /\ auxModel \in AuxFor(game)
    /\ chats = <<>>

\* Multiplayer games: a game without shouldSkip, or one that reports one
\* seat or every seat inactive.
MultiGames(n) ==
    {g \in Games :
       LET seats == 0..((IF g.dynamic THEN n ELSE g.players) - 1)
       IN /\ g.dynamic => g.players = 0
          /\ IF g.hasShouldSkip
             THEN g.skipSeats \in {{s} : s \in seats} \cup {seats}
             ELSE g.skipSeats = {} /\ g.skipWhen = "always"}

\* Lines 202-204: const chats = models.map(() => []).
InitMulti ==
    /\ mode = "multi"
    /\ pc = "m_while"
    /\ models \in {[i \in 1..n |-> i - 1] : n \in 0..MaxSeats}
    /\ game \in MultiGames(Len(models))
    /\ solverGame = NoGame
    /\ auxModel \in AuxFor(game)
    /\ chats = [p \in 0..(Len(models) - 1) |-> <<>>]

\* Lines 312-314.
InitAdversarial ==
    /\ mode = "adversarial"
    /\ pc = "a_first"
    /\ game \in SingleGames
    /\ solverGame \in SingleGames
    /\ models = <<0, 1>>
    /\ auxModel \in AuxFor(game) \cup AuxFor(solverGame)
    /\ chats = <<>>

Init ==
    /\ \/ InitSingle
       \/ InitMulti
       \/ InitAdversarial
    /\ chat = <<>>
    /\ genChat = <<>>
    /\ solChat = <<>>
    /\ state = <<>>
    /\ status = Ongoing
    /\ player = 0
    /\ response = NoMessage
    /\ parsed = <<>>
    /\ trace = <<>>
    /\ winner = NoWinner
    /\ winnerCalls = 0
    /\ thrown = "none"
    /\ chatsFile = <<>>

Next ==
    \/ GPrompt
    \/ GReply
    \/ GParse
    \/ GUpdate
    \/ GEvaluate
    \/ GWhile
    \/ MWhile
    \/ MSeat
    \/ MReply
    \/ MParse
    \/ MUpdate
    \/ MEvaluate
    \/ AGenPrompt
    \/ AGenReply
    \/ AGenUpdate
    \/ AGenEvaluate
    \/ AWhile
    \/ ASolPrompt
    \/ ASolReply
    \/ ASolUpdate
    \/ ASolEvaluate

Spec == Init /\ [][Next]_vars
\* Behaviours in which the engine always takes its next step: the loops are
\* sequential code and every awaited call returns.
FairSpec == Spec /\ WF_vars(Next)

\* Spec describes the runs in which every call returns; ErrSpec adds the
\* runs in which a call throws.
ErrNext ==
    \/ Next
    \/ Throw
ErrSpec == Init /\ [][ErrNext]_vars

\* ------------------------------------------------------------ tic-tac-toe
\* multiplayerGameLoop driving ticTacToeGame (src/games/ticTacToe.ts) from
\* the state of initializeTicTacToeState, which src/index.ts hands in.
\* enum TicTacToeValue and the null of an empty cell.
TicTacToeValue == {"X", "O"}
EmptyCell == "null"

\* moveMap: the answers that name a cell, with its row and column.
moveMap ==
    [a \in {"top left", "top center", "top right", "middle left",
            "middle center", "middle right", "bottom left", "bottom middle",
            "bottom right"} |->
       CASE a = "top left" -> <<0, 0>>
         [] a = "top center" -> <<0, 1>>
         [] a = "top right" -> <<0, 2>>
         [] a = "middle left" -> <<1, 0>>
         [] a = "middle center" -> <<1, 1>>
         [] a = "middle right" -> <<1, 2>>
         [] a = "bottom left" -> <<2, 0>>
         [] a = "bottom middle" -> <<2, 1>>
         [] a = "bottom right" -> <<2, 2>>]

\* Parsed answers: every cell name and one text that names no cell.
TicTacToeAnswers == DOMAIN moveMap \cup {"bottom center"}

initializeTicTacToeState ==
    [board |-> [r \in 0..2 |-> [c \in 0..2 |-> EmptyCell]], turn |-> 1]

\* ticTacToeGame as the engine sees it: two seats, a string
\* answerParserPrompt, no shouldSkip.
ticTacToeGame ==
    [answerParserPrompt |-> "string", dynamic |-> FALSE, players |-> 2,
     hasShouldSkip |-> FALSE, skipSeats |-> {}, skipWhen |-> "always"]

\* An updateState that accepts every answer that names a cell.
TicTacToeLegalAnyCell(st, a) == a \in DOMAIN moveMap

\* updateState's guard: the answer names a cell and the cell is empty;
\* otherwise updateState throws.
TicTacToeLegal(st, a) ==
    /\ a \in DOMAIN moveMap
    /\ st.board[moveMap[a][1]][moveMap[a][2]] = EmptyCell

\* updateState: the symbol follows the parity of turn (odd X, even O), the
\* cell is filled and turn is incremented.  The seat is not looked at.
TicTacToeUpdateState(st, a) ==
    LET currentPlayer == IF st.turn % 2 = 0 THEN "O" ELSE "X"
        row == moveMap[a][1]
        col == moveMap[a][2]
    IN [board |-> [st.board EXCEPT ![row][col] = currentPlayer],
        turn |-> st.turn + 1]

\* The rows, columns and diagonals of evaluateStatus.
TicTacToeLines ==
    {<<<<0, 0>>, <<0, 1>>, <<0, 2>>>>,
     <<<<1, 0>>, <<1, 1>>, <<1, 2>>>>,
     <<<<2, 0>>, <<2, 1>>, <<2, 2>>>>,
     <<<<0, 0>>, <<1, 0>>, <<2, 0>>>>,
     <<<<0, 1>>, <<1, 1>>, <<2, 1>>>>,
     <<<<0, 2>>, <<1, 2>>, <<2, 2>>>>,
     <<<<0, 0>>, <<1, 1>>, <<2, 2>>>>,
     <<<<0, 2>>, <<1, 1>>, <<2, 0>>>>}

\* The symbols that fill a whole line.
TicTacToeLineOwners(st) ==
    {v \in TicTacToeValue :
       \E line \in TicTacToeLines :
          \A i \in 1..3 : st.board[line[i][1]][line[i][2]] = v}

TicTacToeEvaluateStatus(st) ==
    IF TicTacToeLineOwners(st) # {} THEN Win
    ELSE IF \A r \in 0..2 : \A c \in 0..2 : st.board[r][c] # EmptyCell
    THEN Draw
    ELSE Ongoing

\* A winner function that names the players the other way round.
TicTacToeWinnerSwapped(st) == IF st.turn % 2 = 0 THEN 2 ELSE 1

\* winner: 1 when turn is even (X made the last move), else 2.
TicTacToeWinner(st) == IF st.turn % 2 = 0 THEN 1 ELSE 2

\* Line 207 and lines 270-281, with ticTacToeGame.winner.
TWhile ==
    /\ mode = "tictactoe"
    /\ pc = "t_while"
    /\ IF status = Ongoing
       THEN /\ player' = 0
            /\ pc' = "t_for"
            /\ UNCHANGED <<chatsFile, winner, winnerCalls>>
       ELSE /\ player' = player
            /\ pc' = "done"
            /\ IF CallWinner(status)
               THEN /\ winner' = TicTacToeWinner(state)
                    /\ winnerCalls' = winnerCalls + 1
               ELSE /\ winner' = NoWinner
                    /\ winnerCalls' = winnerCalls
    /\ UNCHANGED <<chatsFile, thrown,
                   mode, game, solverGame, models, auxModel, chat, chats,
                   genChat, solChat, state, status, response, parsed, trace>>

\* Lines 208-262, one pass of the for loop: the seat is prompted, its
\* answer is extracted, updateState folds it in or throws, evaluateStatus
\* is called and the round is left if the game is over.
TMove ==
    /\ mode = "tictactoe"
    /\ pc = "t_for"
    /\ IF player >= SeatCount
       THEN /\ pc' = "t_while"
            /\ UNCHANGED <<chatsFile, player, state, status, parsed, thrown>>
       ELSE \E a \in TicTacToeAnswers :
              /\ parsed' = a
              /\ IF ~TicTacToeLegal(state, a)
                 THEN /\ pc' = "error"
                      /\ thrown' = Propagate("GameError")
                      /\ UNCHANGED <<chatsFile, player, state, status>>
                 ELSE /\ state' = TicTacToeUpdateState(state, a)
                      /\ status' = TicTacToeEvaluateStatus(state')
                      /\ thrown' = thrown
                      /\ IF BreakRound(status')
                         THEN pc' = "t_while" /\ player' = player
                         ELSE pc' = "t_for" /\ player' = NextPlayer(player)
    /\ UNCHANGED <<chatsFile, winner, winnerCalls,
                   mode, game, solverGame, models, auxModel, chat, chats,
                   genChat, solChat, response, trace>>

TicTacToeInit ==
    /\ mode = "tictactoe"
    /\ pc = "t_while"
    /\ game = ticTacToeGame
    /\ solverGame = NoGame
    /\ models = <<0, 1>>
    /\ auxModel \in AuxFor(NoGame)
    /\ chat = <<>>
    /\ chats = <<>>
    /\ genChat = <<>>
    /\ solChat = <<>>
    /\ state = initializeTicTacToeState
    /\ status = Ongoing
    /\ player = 0
    /\ response = NoMessage
    /\ parsed = "none"
    /\ trace = <<>>
    /\ winner = NoWinner
    /\ winnerCalls = 0
    /\ thrown = "none"
    /\ chatsFile = <<>>

TicTacToeNext ==
    \/ TWhile
    \/ TMove

TicTacToeSpec == TicTacToeInit /\ [][TicTacToeNext]_vars

\* ------------------------------------------------------- guess the number
\* gameLoop driving guessNumberGame (src/games/guessNumber.ts).
\* evaluateStatus: guesses.length >= 8.
MaxGuesses == 8

\* The targets handed to initializeState.
GuessTargets == {42, 50}

\* What the participant replies; the auxiliary participant, told to return
\* the number and nothing else, returns these texts as they stand.
GuessReplies == {<<"5", "0">>, <<"4", "0">>, <<" ", "4", "2", "\n">>}

\* guessNumberGame as the engine sees it: a string answerParserPrompt.
guessNumberGame ==
    [answerParserPrompt |-> "string", dynamic |-> FALSE, players |-> 0,
     hasShouldSkip |-> FALSE, skipSeats |-> {}, skipWhen |-> "always"]

Digits == {"0", "1", "2", "3", "4", "5", "6", "7", "8", "9"}
DigitValue(c) ==
    CASE c = "0" -> 0 [] c = "1" -> 1 [] c = "2" -> 2 [] c = "3" -> 3
      [] c = "4" -> 4 [] c = "5" -> 5 [] c = "6" -> 6 [] c = "7" -> 7
      [] c = "8" -> 8 [] c = "9" -> 9

RECURSIVE ParseDigits(_, _)
ParseDigits(s, acc) ==
    IF s = <<>> \/ Head(s) \notin Digits THEN acc
    ELSE ParseDigits(Tail(s), acc * 10 + DigitValue(Head(s)))

\* Number.parseInt of a text whose first character after white space is a
\* digit: the value of the leading run of digits.  (Without a digit the
\* result is NaN; no answer of the model is of that kind.)
ParseInt(s) == ParseDigits(TrimStart(s), 0)

\* initializeState
GuessInitializeState(target) == [guesses |-> <<>>, target |-> target]

\* An updateState that puts the new guess in front.
GuessUpdateStateUnshift(st, parsedAnswer) ==
    [st EXCEPT !.guesses = <<ParseInt(parsedAnswer)>> \o @]

\* updateState: state.guesses.push(Number.parseInt(parsedAnswer)).
GuessUpdateState(st, parsedAnswer) ==
    [st EXCEPT !.guesses = Append(@, ParseInt(parsedAnswer))]

\* An evaluateStatus that allows one guess more.
GuessEvaluateStatusLate(st) ==
    IF Len(st.guesses) > MaxGuesses THEN Loss
    ELSE IF st.guesses # <<>> /\ Last(st.guesses) = st.target THEN Win
    ELSE Ongoing

\* evaluateStatus: the limit is tested first, then the last guess.
GuessEvaluateStatus(st) ==
    IF Len(st.guesses) >= MaxGuesses THEN Loss
    ELSE IF st.guesses # <<>> /\ Last(st.guesses) = st.target THEN Win
    ELSE Ongoing

\* prompts.first is a fixed text; prompts.turn names the last guess and
\* says "too high" if it is above the target, else "too low".
GuessPrompt(kind, st) ==
    IF kind = "first"
    THEN [kind |-> "first", last |-> <<>>, verdict |-> "none"]
    ELSE [kind |-> "turn", last |-> <<Last(st.guesses)>>,
          verdict |-> IF Last(st.guesses) > st.target THEN "too high"
                      ELSE "too low"]

\* Lines 118-128 and 143-151.
NPrompt ==
    /\ mode = "guess"
    /\ pc \in {"n_first", "n_turn"}
    /\ LET kind == IF pc = "n_first" THEN "first" ELSE "turn"
           msg == UserMessage(GuessPrompt(kind, state))
       IN /\ chat' = Append(chat, msg)
          /\ trace' = Append(trace,
                [op |-> "complete", seat |-> 0, conv |-> Append(chat, msg)])
    /\ pc' = "n_reply"
    /\ UNCHANGED <<chatsFile, thrown, winner, winnerCalls,
                   mode, game, solverGame, models, auxModel, chats, genChat,
                   solChat, state, status, player, response, parsed>>

\* Lines 128-132 and 151-155.
NReply ==
    /\ mode = "guess"
    /\ pc = "n_reply"
    /\ \E r \in GuessReplies :
         /\ response' = AssistantMessage(r)
         /\ chat' = Append(chat, AssistantMessage(r))
         /\ trace' = Append(trace,
               [op |-> "reply", seat |-> 0, message |-> AssistantMessage(r)])
    /\ pc' = "n_parse"
    /\ UNCHANGED <<chatsFile, thrown, winner, winnerCalls,
                   mode, game, solverGame, models, auxModel, chats, genChat,
                   solChat, state, status, player, parsed>>

\* Lines 134-136 and 157-164.
NParse ==
    /\ mode = "guess"
    /\ pc = "n_parse"
    /\ ParseStep(game, "n_update")
    /\ UNCHANGED <<chatsFile, thrown, winner, winnerCalls,
                   mode, game, solverGame, models, auxModel, chat, chats,
                   genChat, solChat, state, status, player, response>>

\* Lines 137 and 165, with guessNumberGame.updateState.
NUpdate ==
    /\ mode = "guess"
    /\ pc = "n_update"
    /\ state' = GuessUpdateState(state, parsed)
    /\ trace' = Append(trace,
          [op |-> "updateState", game |-> "game", answer |-> parsed])
    /\ pc' = "n_evaluate"
    /\ UNCHANGED <<chatsFile, thrown, winner, winnerCalls,
                   mode, game, solverGame, models, auxModel, chat, chats,
                   genChat, solChat, status, player, response, parsed>>

\* Lines 139 and 166, with guessNumberGame.evaluateStatus.
NEvaluate ==
    /\ mode = "guess"
    /\ pc = "n_evaluate"
    /\ status' = GuessEvaluateStatus(state)
    /\ trace' = Append(trace,
          [op |-> "evaluateStatus", game |-> "game",
           result |-> GuessEvaluateStatus(state)])
    /\ pc' = "n_while"
    /\ UNCHANGED <<chatsFile, thrown, winner, winnerCalls,
                   mode, game, solverGame, models, auxModel, chat, chats,
                   genChat, solChat, state, player, response, parsed>>

\* Line 142 and lines 173-180.
NWhile ==
    /\ mode = "guess"
    /\ pc = "n_while"
    /\ pc' = IF LoopCondition(status) THEN "n_turn" ELSE "done"
    /\ UNCHANGED <<chatsFile, thrown, winner, winnerCalls,
                   mode, game, solverGame, models, auxModel, chat, chats,
                   genChat, solChat, state, status, player, response, parsed,
                   trace>>

\* Lines 114-116.
GuessInit ==
    /\ mode = "guess"
    /\ pc = "n_first"
    /\ game = guessNumberGame
    /\ solverGame = NoGame
    /\ models = <<0>>
    /\ auxModel = [r \in GuessReplies |-> r]
    /\ chat = <<>>
    /\ chats = <<>>
    /\ genChat = <<>>
    /\ solChat = <<>>
    /\ \E target \in GuessTargets : state = GuessInitializeState(target)
    /\ status = Ongoing
    /\ player = 0
    /\ response = NoMessage
    /\ parsed = <<>>
    /\ trace = <<>>
    /\ winner = NoWinner
    /\ winnerCalls = 0
    /\ thrown = "none"
    /\ chatsFile = <<>>

GuessNext ==
    \/ NPrompt
    \/ NReply
    \/ NParse
    \/ NUpdate
    \/ NEvaluate
    \/ NWhile

GuessSpec == GuessInit /\ [][GuessNext]_vars

\* ---------------------------------------------------------- benchmarkGame
\* benchmarkGame (src/benchmarkGame.ts) over gameLoop runs.  The variable
\* state holds the locals i, j, iterations and results (results[j + 1] is
\* the entry of models[j]); the history trace holds, for every model, how
\* many of its runs were started, how many threw and how many returned
\* Win.
\* What a gameLoop run may do: return a final status, or throw.
RunOutcomes == (GameStatus \ {Ongoing}) \cup {"error"}

\* A win rate, kept as the exact fraction num / den.
Rate(num, den) == [num |-> num, den |-> den]

\* Lines 36-41.
NewResult == [wins |-> 0, total |-> 0, winRate |-> Rate(0, 1)]

\* A runner that counts the run before it is played.
RunResultCountedFirst(r, outcome) ==
    [r EXCEPT !.total = @ + 1,
              !.wins = IF outcome = Win THEN @ + 1 ELSE @]

\* Lines 56-77: total++ and, on a Win, wins++ follow the awaited gameLoop
\* inside the try block; a throw skips both and is caught and logged.
RunResult(r, outcome) ==
    IF outcome = "error" THEN r
    ELSE [r EXCEPT !.total = @ + 1,
                   !.wins = IF outcome = Win THEN @ + 1 ELSE @]

\* Lines 83-85: total > 0 ? (wins / total) * 100 : 0.
WinRate(r) ==
    IF r.total > 0 THEN Rate(r.wins * 100, r.total) ELSE Rate(0, 1)

\* Lines 48-79, one step of the nested for loops: leave them when
\* i reaches iterations, go to the next iteration when j reaches
\* models.length, otherwise play one run for models[j].
BLoop ==
    /\ mode = "bench"
    /\ pc = "b_for"
    /\ IF state.i >= state.iterations
       THEN /\ pc' = "b_rates"
            /\ UNCHANGED <<chatsFile, state, trace>>
       ELSE IF state.j >= Len(models)
       THEN /\ state' = [state EXCEPT !.i = @ + 1, !.j = 0]
            /\ pc' = "b_for"
            /\ trace' = trace
       ELSE \E outcome \in RunOutcomes :
              /\ state' = [state EXCEPT
                     !.results[state.j + 1] = RunResult(@, outcome),
                     !.j = @ + 1]
              /\ trace' = [trace EXCEPT ![state.j + 1] =
                     [runs |-> @.runs + 1,
                      errors |-> @.errors + IF outcome = "error" THEN 1 ELSE 0,
                      won |-> @.won + IF outcome = Win THEN 1 ELSE 0]]
              /\ pc' = "b_for"
    /\ UNCHANGED <<chatsFile, thrown, winner, winnerCalls,
                   mode, game, solverGame, models, auxModel, chat, chats,
                   genChat, solChat, status, player, response, parsed>>

\* Lines 82-88: the win rates are computed and results is returned.
BRates ==
    /\ mode = "bench"
    /\ pc = "b_rates"
    /\ state' = [state EXCEPT !.results =
          [k \in 1..Len(models) |->
              [state.results[k] EXCEPT !.winRate = WinRate(state.results[k])]]]
    /\ pc' = "done"
    /\ UNCHANGED <<chatsFile, thrown, winner, winnerCalls,
                   mode, game, solverGame, models, auxModel, chat, chats,
                   genChat, solChat, status, player, response, parsed, trace>>

\* Lines 36-48.
BenchInit ==
    /\ mode = "bench"
    /\ pc = "b_for"
    /\ game = NoGame
    /\ solverGame = NoGame
    /\ models \in {[k \in 1..n |-> k - 1] : n \in 0..MaxSeats}
    /\ auxModel \in AuxFor(NoGame)
    /\ chat = <<>>
    /\ chats = <<>>
    /\ genChat = <<>>
    /\ solChat = <<>>
    /\ \E iterations \in 0..MaxIterations :
          state = [i |-> 0, j |-> 0, iterations |-> iterations,
                   results |-> [k \in 1..Len(models) |-> NewResult]]
    /\ status = Ongoing
    /\ player = 0
    /\ response = NoMessage
    /\ parsed = <<>>
    /\ trace = [k \in 1..Len(models) |-> [runs |-> 0, errors |-> 0, won |-> 0]]
    /\ winner = NoWinner
    /\ winnerCalls = 0
    /\ thrown = "none"
    /\ chatsFile = <<>>

BenchNext ==
    \/ BLoop
    \/ BRates

BenchSpec == BenchInit /\ [][BenchNext]_vars

\* ----------------------------------------------------------------- wordle
\* gameLoop driving wordleGame (src/games/poker.ts, lines 568-669).
\* scoreGuess: guess.length !== 5.
WordLength == 5
\* evaluateStatus: guesses.length >= 6.
MaxWordleGuesses == 6

UpperCase == <<"A", "B", "C", "D", "E", "F", "G", "H", "I", "J", "K", "L", "M",
               "N", "O", "P", "Q", "R", "S", "T", "U", "V", "W", "X", "Y", "Z">>
LowerCase == <<"a", "b", "c", "d", "e", "f", "g", "h", "i", "j", "k", "l", "m",
               "n", "o", "p", "q", "r", "s", "t", "u", "v", "w", "x", "y", "z">>

\* String.prototype.toLowerCase on the letters A-Z.
ToLowerCase(s) ==
    [i \in 1..Len(s) |->
        IF \E k \in 1..Len(UpperCase) : UpperCase[k] = s[i]
        THEN LowerCase[CHOOSE k \in 1..Len(UpperCase) : UpperCase[k] = s[i]]
        ELSE s[i]]

\* The solutions handed to initializeWordleState: five-letter words.
WordleSolutions == {<<"f", "l", "a", "m", "e">>, <<"L", "e", "v", "e", "l">>}

\* What the participant replies (the auxiliary participant returns the
\* word as it stands): two wrong words, the first solution in capitals,
\* the second in small letters, and a word of six letters.
WordleReplies ==
    {<<"e", "l", "e", "c", "t">>, <<"w", "r", "o", "n", "g">>,
     <<"F", "L", "A", "M", "E">>, <<" ", "l", "e", "v", "e", "l">>,
     <<"f", "l", "a", "m", "e", "s">>}

\* The null that scoreGuess writes over a letter it has used.
Used == "null"

\* First pass of scoreGuess: the positions where guess and target agree.
GreenAt(guess, target) == {i \in 1..WordLength : guess[i] = target[i]}

\* Array.prototype.indexOf, 1-based; 0 if the letter does not occur.
IndexOf(arr, c) ==
    IF \E k \in 1..Len(arr) : arr[k] = c
    THEN CHOOSE k \in 1..Len(arr) :
            arr[k] = c /\ \A m \in 1..(k - 1) : arr[m] # c
    ELSE 0

\* Second pass of scoreGuess from position i on: a letter not yet used
\* that the rest of the target includes is Yellow, and its first
\* occurrence in the target is used up.
RECURSIVE YellowPass(_, _, _, _)
YellowPass(i, guessArr, targetArr, resp) ==
    IF i > WordLength THEN resp
    ELSE IF guessArr[i] # Used /\ IndexOf(targetArr, guessArr[i]) # 0
    THEN YellowPass(i + 1, guessArr,
                    [targetArr EXCEPT ![IndexOf(targetArr, guessArr[i])] = Used],
                    [resp EXCEPT ![i] = "Yellow"])
    ELSE YellowPass(i + 1, guessArr, targetArr, resp)

\* scoreGuess for a five-letter target: <<"Error">> stands for the throw
\* on a guess that is not five letters long.
scoreGuess(guess, target) ==
    LET g == ToLowerCase(guess)
        t == ToLowerCase(target)
    IN IF Len(g) # WordLength THEN <<"Error">>
       ELSE LET green == GreenAt(g, t)
                guessArr == [i \in 1..WordLength |->
                                IF i \in green THEN Used ELSE g[i]]
                targetArr == [i \in 1..WordLength |->
                                 IF i \in green THEN Used ELSE t[i]]
                resp == [i \in 1..WordLength |->
                                IF i \in green THEN "Green" ELSE "Grey"]
            IN YellowPass(1, guessArr, targetArr, resp)

AllGreen == [i \in 1..WordLength |-> "Green"]

\* An evaluateStatus that tests the limit before the score.
WordleEvaluateStatusLimitFirst(st) ==
    LET score == scoreGuess(Last(st.guesses), st.solution)
    IN IF score = <<"Error">> THEN Loss
       ELSE IF Len(st.guesses) >= MaxWordleGuesses THEN Loss
       ELSE IF score = AllGreen THEN Win
       ELSE Ongoing

\* evaluateStatus: a throw of scoreGuess is a Loss; all green is a Win;
\* then the limit is tested.
WordleEvaluateStatus(st) ==
    LET score == scoreGuess(Last(st.guesses), st.solution)
    IN IF score = <<"Error">> THEN Loss
       ELSE IF score = AllGreen THEN Win
       ELSE IF Len(st.guesses) >= MaxWordleGuesses THEN Loss
       ELSE Ongoing

initializeWordleState(solution) == [guesses |-> <<>>, solution |-> solution]

\* updateState: state.guesses.push(parsedAnswer).
WordleUpdateState(st, parsedAnswer) ==
    [st EXCEPT !.guesses = Append(@, parsedAnswer)]

\* prompts.first is a fixed text; turnPrompt shows the last guess and its
\* score.
WordlePrompt(kind, st) ==
    IF kind = "first"
    THEN [kind |-> "first", last |-> <<>>, score |-> <<>>]
    ELSE [kind |-> "turn", last |-> Last(st.guesses),
          score |-> scoreGuess(Last(st.guesses), st.solution)]

\* wordleGame as the engine sees it: a string answerParserPrompt.
wordleGame ==
    [answerParserPrompt |-> "string", dynamic |-> FALSE, players |-> 0,
     hasShouldSkip |-> FALSE, skipSeats |-> {}, skipWhen |-> "always"]

\* Lines 118-128 and 143-151 of gameLoop.
WPrompt ==
    /\ mode = "wordle"
    /\ pc \in {"w_first", "w_turn"}
    /\ LET kind == IF pc = "w_first" THEN "first" ELSE "turn"
           msg == UserMessage(WordlePrompt(kind, state))
       IN /\ chat' = Append(chat, msg)
          /\ trace' = Append(trace,
                [op |-> "complete", seat |-> 0, conv |-> Append(chat, msg)])
    /\ pc' = "w_reply"
    /\ UNCHANGED <<chatsFile, thrown, winner, winnerCalls,
                   mode, game, solverGame, models, auxModel, chats, genChat,
                   solChat, state, status, player, response, parsed>>

\* Lines 128-132 and 151-155.
WReply ==
    /\ mode = "wordle"
    /\ pc = "w_reply"
    /\ \E r \in WordleReplies :
         /\ response' = AssistantMessage(r)
         /\ chat' = Append(chat, AssistantMessage(r))
         /\ trace' = Append(trace,
               [op |-> "reply", seat |-> 0, message |-> AssistantMessage(r)])
    /\ pc' = "w_parse"
    /\ UNCHANGED <<chatsFile, thrown, winner, winnerCalls,
                   mode, game, solverGame, models, auxModel, chats, genChat,
                   solChat, state, status, player, parsed>>

\* Lines 134-136 and 157-164.
WParse ==
    /\ mode = "wordle"
    /\ pc = "w_parse"
    /\ ParseStep(game, "w_update")
    /\ UNCHANGED <<chatsFile, thrown, winner, winnerCalls,
                   mode, game, solverGame, models, auxModel, chat, chats,
                   genChat, solChat, state, status, player, response>>

\* Lines 137 and 165, with wordleGame.updateState.
WUpdate ==
    /\ mode = "wordle"
    /\ pc = "w_update"
    /\ state' = WordleUpdateState(state, parsed)
    /\ trace' = Append(trace,
          [op |-> "updateState", game |-> "game", answer |-> parsed])
    /\ pc' = "w_evaluate"
    /\ UNCHANGED <<chatsFile, thrown, winner, winnerCalls,
                   mode, game, solverGame, models, auxModel, chat, chats,
                   genChat, solChat, status, player, response, parsed>>

\* Lines 139 and 166, with wordleGame.evaluateStatus.
WEvaluate ==
    /\ mode = "wordle"
    /\ pc = "w_evaluate"
    /\ status' = WordleEvaluateStatus(state)
    /\ trace' = Append(trace,
          [op |-> "evaluateStatus", game |-> "game",
           result |-> WordleEvaluateStatus(state)])
    /\ pc' = "w_while"
    /\ UNCHANGED <<chatsFile, thrown, winner, winnerCalls,
                   mode, game, solverGame, models, auxModel, chat, chats,
                   genChat, solChat, state, player, response, parsed>>

\* Line 142 and lines 173-180.
WWhile ==
    /\ mode = "wordle"
    /\ pc = "w_while"
    /\ pc' = IF LoopCondition(status) THEN "w_turn" ELSE "done"
    /\ UNCHANGED <<chatsFile, thrown, winner, winnerCalls,
                   mode, game, solverGame, models, auxModel, chat, chats,
                   genChat, solChat, state, status, player, response, parsed,
                   trace>>

\* Lines 114-116 of gameLoop.
WordleInit ==
    /\ mode = "wordle"
    /\ pc = "w_first"
    /\ game = wordleGame
    /\ solverGame = NoGame
    /\ models = <<0>>
    /\ auxModel = [r \in WordleReplies |-> r]
    /\ chat = <<>>
    /\ chats = <<>>
    /\ genChat = <<>>
    /\ solChat = <<>>
    /\ \E solution \in WordleSolutions :
          state = initializeWordleState(solution)
    /\ status = Ongoing
    /\ player = 0
    /\ response = NoMessage
    /\ parsed = <<>>
    /\ trace = <<>>
    /\ winner = NoWinner
    /\ winnerCalls = 0
    /\ thrown = "none"
    /\ chatsFile = <<>>

WordleNext ==
    \/ WPrompt
    \/ WReply
    \/ WParse
    \/ WUpdate
    \/ WEvaluate
    \/ WWhile

WordleSpec == WordleInit /\ [][WordleNext]_vars

\* --------------------------------------------------------- pokemon battle
\* evaluateStatus and winner of pokemonBattleGame (src/unnamed/part_006,
\* lines 257-268), applied to battle states of two teams.  A team is the
\* sequence of its Pokemon's currentHP, which updateState keeps at 0 or
\* above (Math.max(0, ...)).
MaxTeam == 2
MaxHP == 2

PokemonTeams ==
    UNION {[1..n -> 0..MaxHP] : n \in 0..MaxTeam}

\* team.every((p) => p.currentHP <= 0)
TeamDown(team) == \A i \in 1..Len(team) : team[i] <= 0

\* team.some((p) => p.currentHP > 0)
TeamStanding(team) == \E i \in 1..Len(team) : team[i] > 0

\* An evaluateStatus that takes one fainted Pokemon for a fallen team.
PokemonEvaluateStatusAnyDown(st) ==
    LET p1Down == \E i \in 1..Len(st.players[1]) : st.players[1][i] <= 0
        p2Down == \E i \in 1..Len(st.players[2]) : st.players[2][i] <= 0
    IN IF p1Down /\ p2Down THEN Draw
       ELSE IF p1Down \/ p2Down THEN Win
       ELSE Ongoing

\* evaluateStatus, lines 257-263.
PokemonEvaluateStatus(st) ==
    LET p1Down == TeamDown(st.players[1])
        p2Down == TeamDown(st.players[2])
    IN IF p1Down /\ p2Down THEN Draw
       ELSE IF p1Down \/ p2Down THEN Win
       ELSE Ongoing

\* winner, lines 264-268: 2, 1 or 0.
PokemonWinner(st) ==
    IF TeamDown(st.players[1]) /\ TeamStanding(st.players[2]) THEN 2
    ELSE IF TeamDown(st.players[2]) /\ TeamStanding(st.players[1]) THEN 1
    ELSE 0

\* pokemonBattleGame as the engine sees it: two players, a string
\* answerParserPrompt.
pokemonBattleGame ==
    [answerParserPrompt |-> "string", dynamic |-> FALSE, players |-> 2,
     hasShouldSkip |-> FALSE, skipSeats |-> {}, skipWhen |-> "always"]

\* pokemonBattleGame.evaluateStatus(state)
PEvaluate ==
    /\ mode = "pokemon"
    /\ pc = "p_evaluate"
    /\ status' = PokemonEvaluateStatus(state)
    /\ pc' = "p_winner"
    /\ UNCHANGED <<chatsFile, thrown, winner, winnerCalls,
                   mode, game, solverGame, models, auxModel, chat, chats,
                   genChat, solChat, state, player, response, parsed, trace>>

\* pokemonBattleGame.winner(state)
PWinner ==
    /\ mode = "pokemon"
    /\ pc = "p_winner"
    /\ winner' = PokemonWinner(state)
    /\ winnerCalls' = winnerCalls + 1
    /\ pc' = "done"
    /\ UNCHANGED <<chatsFile, thrown, status,
                   mode, game, solverGame, models, auxModel, chat, chats,
                   genChat, solChat, state, player, response, parsed, trace>>

\* Every battle state of two teams of up to MaxTeam Pokemon.
PokemonInit ==
    /\ mode = "pokemon"
    /\ pc = "p_evaluate"
    /\ game = pokemonBattleGame
    /\ solverGame = NoGame
    /\ models = <<0, 0>>
    /\ auxModel = [r \in {} |-> r]
    /\ chat = <<>>
    /\ chats = <<>>
    /\ genChat = <<>>
    /\ solChat = <<>>
    /\ \E team1 \in PokemonTeams, team2 \in PokemonTeams :
          state = [players |-> <<team1, team2>>]
    /\ status = Ongoing
    /\ player = 0
    /\ response = NoMessage
    /\ parsed = <<>>
    /\ trace = <<>>
    /\ winner = NoWinner
    /\ winnerCalls = 0
    /\ thrown = "none"
    /\ chatsFile = <<>>

PokemonNext ==
    \/ PEvaluate
    \/ PWinner

PokemonSpec == PokemonInit /\ [][PokemonNext]_vars

\* ------------------------------------------------- OpenAIReasoningModel
\* OpenAIReasoningModel.complete (src/models.ts, lines 243-293): the
\* model's defaultReasoningEffort, the reasoning_effort of the caller's
\* options and the one in the body of the request.
ReasoningEfforts == {"low", "medium", "high"}

\* An optional field that is not there.
NoEffort == "undefined"

\* Lines 264-268: finalOptions = { ...options }, then the default, if the
\* model has one, is written over reasoning_effort.
FinalReasoningEffort(defaultReasoningEffort, optionsEffort) ==
    IF defaultReasoningEffort # NoEffort
    THEN defaultReasoningEffort
    ELSE optionsEffort

\* Lines 259-284: complete builds finalOptions and sends the request.
RComplete ==
    /\ mode = "reasoning"
    /\ pc = "r_idle"
    /\ Count("fetch") < MaxCalls
    /\ \E optionsEffort \in ReasoningEfforts \cup {NoEffort} :
          trace' = Append(trace,
            [op |-> "fetch", options |-> optionsEffort,
             reasoning_effort |->
                FinalReasoningEffort(state.defaultReasoningEffort,
                                     optionsEffort)])
    /\ pc' = "r_fetch"
    /\ UNCHANGED <<chatsFile, thrown, winner, winnerCalls, status,
                   mode, game, solverGame, models, auxModel, chat, chats,
                   genChat, solChat, state, player, response, parsed>>

\* Lines 285-292: the reply of the API is returned to the caller.
RResponse ==
    /\ mode = "reasoning"
    /\ pc = "r_fetch"
    /\ \E r \in {<<"a">>, <<"b">>} : response' = AssistantMessage(r)
    /\ pc' = "r_idle"
    /\ UNCHANGED <<chatsFile, thrown, winner, winnerCalls, status,
                   mode, game, solverGame, models, auxModel, chat, chats,
                   genChat, solChat, state, player, parsed, trace>>

\* Lines 243-248: the constructor, with or without a default.
ReasoningInit ==
    /\ mode = "reasoning"
    /\ pc = "r_idle"
    /\ game = NoGame
    /\ solverGame = NoGame
    /\ models = <<0>>
    /\ auxModel = [r \in {} |-> r]
    /\ chat = <<>>
    /\ chats = <<>>
    /\ genChat = <<>>
    /\ solChat = <<>>
    /\ \E d \in ReasoningEfforts \cup {NoEffort} :
          state = [defaultReasoningEffort |-> d]
    /\ status = Ongoing
    /\ player = 0
    /\ response = NoMessage
    /\ parsed = <<>>
    /\ trace = <<>>
    /\ winner = NoWinner
    /\ winnerCalls = 0
    /\ thrown = "none"
    /\ chatsFile = <<>>

ReasoningNext ==
    \/ RComplete
    \/ RResponse

ReasoningSpec == ReasoningInit /\ [][ReasoningNext]_vars

\* ------------------------------------------------------------------ cache
\* The Cache class (src/cache/cache.ts): every operation loads the JSON
\* file, and set, remove and clear write it back.  `state` is the file,
\* `trace` the operations made so far with their results.

\* Keys the caller uses: two ordinary ones and the name of the prototype
\* slot of a JavaScript object.
CacheKeys == {"a", "b", "__proto__"}

\* Values the caller stores (value: unknown): two strings, undefined and
\* the number NaN.
CacheValues == {"x", "y", "undefined", "NaN"}

\* The object an absent, blank or unparsable file loads as: {}.
EmptyObject == [k \in {} |-> "x"]

CacheFiles ==
    {[kind |-> "missing", entries |-> EmptyObject],
     [kind |-> "blank", entries |-> EmptyObject],
     [kind |-> "json", entries |-> EmptyObject]}

\* #loadCache: JSON.parse of the file's text, {} if there is no file or
\* no text.
LoadCache(file) ==
    IF file.kind = "json" THEN file.entries ELSE EmptyObject

\* JSON.stringify of an object followed by JSON.parse: a property whose
\* value is undefined is left out, NaN is written as null.
JSONStringify(cache) ==
    [k \in {q \in DOMAIN cache : cache[q] # "undefined"} |->
        IF cache[k] = "NaN" THEN "null" ELSE cache[k]]

\* #saveCache: the file now holds JSON.stringify(cache).
SaveCache(cache) == [kind |-> "json", entries |-> JSONStringify(cache)]

\* Object.prototype.hasOwnProperty.call(cache, key)
HasOwnProperty(cache, key) == key \in DOMAIN cache

\* cache[key] = value on a plain object: an own property, except that
\* "__proto__" is the prototype's setter, which ignores a value that is
\* not an object and creates no property.
AssignProperty(cache, key, value) ==
    IF key = "__proto__" THEN cache
    ELSE [k \in DOMAIN cache \cup {key} |->
            IF k = key THEN value ELSE cache[k]]

\* delete cache[key]
DeleteProperty(cache, key) ==
    [k \in DOMAIN cache \ {key} |-> cache[k]]

\* Lines 62-66.
CacheGet ==
    /\ mode = "cache"
    /\ Len(trace) < MaxCalls
    /\ \E key \in CacheKeys :
         LET cache == LoadCache(state)
         IN trace' = Append(trace,
              [op |-> "get", key |-> key, value |-> "undefined",
               result |-> IF HasOwnProperty(cache, key)
                          THEN cache[key] ELSE "null"])
    /\ UNCHANGED <<chatsFile, thrown, winner, winnerCalls, status, pc,
                   mode, game, solverGame, models, auxModel, chat, chats,
                   genChat, solChat, state, player, response, parsed>>

\* Lines 73-77.
CacheSet ==
    /\ mode = "cache"
    /\ Len(trace) < MaxCalls
    /\ \E key \in CacheKeys, value \in CacheValues :
         /\ state' = SaveCache(AssignProperty(LoadCache(state), key, value))
         /\ trace' = Append(trace,
              [op |-> "set", key |-> key, value |-> value,
               result |-> "undefined"])
    /\ UNCHANGED <<chatsFile, thrown, winner, winnerCalls, status, pc,
                   mode, game, solverGame, models, auxModel, chat, chats,
                   genChat, solChat, player, response, parsed>>

\* Lines 84-92.
CacheRemove ==
    /\ mode = "cache"
    /\ Len(trace) < MaxCalls
    /\ \E key \in CacheKeys :
         LET cache == LoadCache(state)
         IN IF HasOwnProperty(cache, key)
            THEN /\ state' = SaveCache(DeleteProperty(cache, key))
                 /\ trace' = Append(trace,
                      [op |-> "remove", key |-> key, value |-> "undefined",
                       result |-> "true"])
            ELSE /\ state' = state
                 /\ trace' = Append(trace,
                      [op |-> "remove", key |-> key, value |-> "undefined",
                       result |-> "false"])
    /\ UNCHANGED <<chatsFile, thrown, winner, winnerCalls, status, pc,
                   mode, game, solverGame, models, auxModel, chat, chats,
                   genChat, solChat, player, response, parsed>>

\* Lines 97-99.
CacheClear ==
    /\ mode = "cache"
    /\ Len(trace) < MaxCalls
    /\ state' = SaveCache(EmptyObject)
    /\ trace' = Append(trace,
         [op |-> "clear", key |-> "undefined", value |-> "undefined",
          result |-> "undefined"])
    /\ UNCHANGED <<chatsFile, thrown, winner, winnerCalls, status, pc,
                   mode, game, solverGame, models, auxModel, chat, chats,
                   genChat, solChat, player, response, parsed>>

\* Lines 9-15: a new Cache over a file that is absent, blank or holds {}.
CacheInit ==
    /\ mode = "cache"
    /\ pc = "cache"
    /\ game = NoGame
    /\ solverGame = NoGame
    /\ models = <<>>
    /\ auxModel = [r \in {} |-> r]
    /\ chat = <<>>
    /\ chats = <<>>
    /\ genChat = <<>>
    /\ solChat = <<>>
    /\ state \in CacheFiles
    /\ status = Ongoing
    /\ player = 0
    /\ response = NoMessage
    /\ parsed = <<>>
    /\ trace = <<>>
    /\ winner = NoWinner
    /\ winnerCalls = 0
    /\ thrown = "none"
    /\ chatsFile = <<>>

CacheNext ==
    \/ CacheGet
    \/ CacheSet
    \/ CacheRemove
    \/ CacheClear

CacheSpec == CacheInit /\ [][CacheNext]_vars

\* ------------------------------------------------- max-number benchmark
\* runSingleMaxNumberBenchmark for one model and one list size: the trials
\* are started one second apart and awaited together; each stores its
\* result in the file cache "maxNumberMultiRun".  In this specification
\* state is the cache file, game the parameters of the setting, player the
\* loop variable trial, chats the list trialPromises and parsed the
\* TrialStats computed at the end.
MaxTrials == 3

\* List sizes: one that takes the early return of line 498 and one that
\* asks the model.
ListSizes == {0, 2}

MaxNumberSettings ==
    [runId : {0}, modelDisplayName : {"GPT-4o"},
     amount : ListSizes, trialsPerSetting : 0..MaxTrials]

\* Lines 490 and 544: the key of a trial.
CacheKey(runId, modelDisplayName, amount, trial) ==
    "run_" \o ToString(runId) \o "/" \o modelDisplayName
        \o "/size_" \o ToString(amount) \o "/trial_" \o ToString(trial)

TrialKey(g, trial) ==
    CacheKey(g.runId, g.modelDisplayName, g.amount, trial)

\* cache.get(key) on a file.
CacheGetResult(file, key) ==
    LET cache == LoadCache(file)
    IN IF HasOwnProperty(cache, key) THEN cache[key] ELSE "null"

\* cache.set(key, value) on a file, with no entry but the new one kept.
CacheSetResultAlone(file, key, value) ==
    SaveCache(AssignProperty(EmptyObject, key, value))

\* cache.set(key, value) on a file: load, assign and save in one
\* synchronous call.
CacheSetResult(file, key, value) ==
    SaveCache(AssignProperty(LoadCache(file), key, value))

\* typeof cachedResult === "boolean"
IsBoolean(v) == v \in {"true", "false"}

\* The cache file before the run: absent, blank, or left by an earlier
\* run that stored results for some of the trials.
MaxNumberFiles(g) ==
    LET keys == {TrialKey(g, t) : t \in 0..(g.trialsPerSetting - 1)}
    IN {[kind |-> "missing", entries |-> EmptyObject],
        [kind |-> "blank", entries |-> EmptyObject]}
       \cup {[kind |-> "json", entries |-> e] :
               e \in UNION {[ks -> {"true", "false"}] : ks \in SUBSET keys}}

PendingPromise == [state |-> "pending", value |-> "none"]
Fulfilled(v) == [state |-> "fulfilled", value |-> v]

\* What the model call of a trial comes to: the right number, another
\* text, or a rejection.
ModelOutcomes == {"right", "wrong", "rejected"}

\* Lines 516-523: isCorrect after the try and catch.
IsCorrect(outcome) == IF outcome = "right" THEN "true" ELSE "false"

\* Lines 538-564.
calculateAccuracyFromCache(file, g) ==
    LET trials == 0..(g.trialsPerSetting - 1)
        found == {t \in trials : CacheGetResult(file, TrialKey(g, t)) # "null"}
        right == {t \in found : CacheGetResult(file, TrialKey(g, t)) = "true"}
        completedCount == Cardinality(found)
        correctCount == Cardinality(right)
    IN [correct |-> correctCount, completed |-> completedCount,
        accuracy |-> IF completedCount > 0
                     THEN <<correctCount, completedCount>> ELSE <<0, 1>>]

\* Lines 607-618 with lines 488-511: the loop starts the next trial, which
\* runs up to its first await: a cached boolean is returned, a list size
\* of zero stores false, otherwise the model is called.
BLaunch ==
    /\ mode = "maxnumber"
    /\ pc = "b_for"
    /\ player < game.trialsPerSetting
    /\ LET cacheKey == TrialKey(game, player)
           cachedResult == CacheGetResult(state, cacheKey)
       IN IF cachedResult # "null" /\ IsBoolean(cachedResult)
          THEN /\ chats' = Append(chats, Fulfilled(cachedResult))
               /\ state' = state
          ELSE IF game.amount <= 0
          THEN /\ chats' = Append(chats, Fulfilled("false"))
               /\ state' = CacheSetResult(state, cacheKey, "false")
          ELSE /\ chats' = Append(chats, PendingPromise)
               /\ state' = state
    /\ trace' = Append(trace, [op |-> "launch", trial |-> player,
                               outcome |-> "none"])
    /\ player' = player + 1
    /\ UNCHANGED <<chatsFile, thrown, winner, winnerCalls, status, pc,
                   mode, game, solverGame, models, auxModel, chat,
                   genChat, solChat, response, parsed>>

\* Lines 516-526: the model call of a pending trial settles and the trial
\* stores its result.
BSettle ==
    /\ mode = "maxnumber"
    /\ pc = "b_for"
    /\ \E trialIndex \in 0..(Len(chats) - 1), outcome \in ModelOutcomes :
         /\ chats[trialIndex + 1].state = "pending"
         /\ state' = CacheSetResult(state, TrialKey(game, trialIndex),
                                    IsCorrect(outcome))
         /\ chats' = [chats EXCEPT
                         ![trialIndex + 1] = Fulfilled(IsCorrect(outcome))]
         /\ trace' = Append(trace, [op |-> "settle", trial |-> trialIndex,
                                    outcome |-> outcome])
    /\ UNCHANGED <<chatsFile, thrown, winner, winnerCalls, status, pc,
                   mode, game, solverGame, models, auxModel, chat,
                   genChat, solChat, player, response, parsed>>

\* Lines 620-625: every trial has been started and has settled;
\* Promise.all resolves and the statistics are read from the cache.
BAll ==
    /\ mode = "maxnumber"
    /\ pc = "b_for"
    /\ player >= game.trialsPerSetting
    /\ \A k \in DOMAIN chats : chats[k].state = "fulfilled"
    /\ parsed' = calculateAccuracyFromCache(state, game)
    /\ pc' = "done"
    /\ UNCHANGED <<chatsFile, thrown, winner, winnerCalls, status,
                   mode, game, solverGame, models, auxModel, chat, chats,
                   genChat, solChat, state, player, response, trace>>

MaxNumberInit ==
    /\ mode = "maxnumber"
    /\ pc = "b_for"
    /\ game \in MaxNumberSettings
    /\ solverGame = NoGame
    /\ models = <<>>
    /\ auxModel = [r \in {} |-> r]
    /\ chat = <<>>
    /\ chats = <<>>
    /\ genChat = <<>>
    /\ solChat = <<>>
    /\ state \in MaxNumberFiles(game)
    /\ status = Ongoing
    /\ player = 0
    /\ response = NoMessage
    /\ parsed = <<>>
    /\ trace = <<>>
    /\ winner = NoWinner
    /\ winnerCalls = 0
    /\ thrown = "none"
    /\ chatsFile = <<>>

MaxNumberNext ==
    \/ BLaunch
    \/ BSettle
    \/ BAll

MaxNumberSpec == MaxNumberInit /\ [][MaxNumberNext]_vars

\* --------------------------------------------------------- equation game
\* adversarialGameLoop (src/gameLoop.ts, lines 299-398) driving
\* equationGeneratorGame and equationSolverGame
\* (src/games/equationGame.ts).  `state` is the EquationState the two games
\* share, `trace` holds the solver's answers, one per round.

\* What the generator participant replies: two problems.
EquationReplies == {<<"p">>, <<" ", "q", "\n">>}

\* What the solver participant replies.
SolverReplies ==
    {<<"1", "9">>, <<" ", "1", "9", "\n">>, <<"2", "0">>, <<"1", "9", ".">>}

\* The answer updateState accepts: "19".
Nineteen == <<"1", "9">>

\* equationGeneratorGame.initializeState, lines 18-20.
EquationInitializeState == [equation |-> <<>>, solved |-> FALSE]

\* equationGeneratorGame.updateState, lines 21-25.
EquationGeneratorUpdateState(st, parsedAnswer) ==
    [st EXCEPT !.equation = Trim(parsedAnswer)]

\* equationGeneratorGame.evaluateStatus, lines 26-28.
EquationGeneratorEvaluateStatus(st) == Ongoing

\* equationSolverGame.updateState, lines 46-53: solved is set on "19" and
\* never cleared.
EquationSolverUpdateState(st, parsedAnswer) ==
    IF Trim(parsedAnswer) = Nineteen THEN [st EXCEPT !.solved = TRUE] ELSE st

\* equationSolverGame.evaluateStatus, lines 54-56.
EquationSolverEvaluateStatus(st) == IF st.solved THEN Ongoing ELSE Loss

\* Lines 316-335 of adversarialGameLoop: the generator's first turn.
EGenFirst ==
    /\ mode = "equation"
    /\ pc = "e_first"
    /\ \E r \in EquationReplies :
         /\ genChat' = <<UserMessage("first"), AssistantMessage(r)>>
         /\ state' = EquationGeneratorUpdateState(state, r)
         /\ status' = EquationGeneratorEvaluateStatus(
                          EquationGeneratorUpdateState(state, r))
    /\ pc' = "e_while"
    /\ UNCHANGED <<chatsFile, thrown, winner, winnerCalls,
                   mode, game, solverGame, models, auxModel, chat, chats,
                   player, response, parsed, solChat, trace>>

\* Line 339: while (generatorStatus === GameStatus.Ongoing); after the
\* loop lines 388-397 write the logs and return.  A run is followed for
\* MaxCalls rounds.
EWhile ==
    /\ mode = "equation"
    /\ pc = "e_while"
    /\ IF status = Ongoing
       THEN Len(trace) < MaxCalls /\ pc' = "e_generator"
       ELSE pc' = "done"
    /\ UNCHANGED <<chatsFile, thrown, winner, winnerCalls,
                   mode, game, solverGame, models, auxModel, chat, chats,
                   player, response, parsed, genChat, solChat, state, status,
                   trace>>

\* Lines 341-359: the generator's turn of a round.
EGenTurn ==
    /\ mode = "equation"
    /\ pc = "e_generator"
    /\ \E r \in EquationReplies :
         /\ genChat' = genChat \o <<UserMessage("turn"), AssistantMessage(r)>>
         /\ state' = EquationGeneratorUpdateState(state, r)
    /\ pc' = "e_solver"
    /\ UNCHANGED <<chatsFile, thrown, winner, winnerCalls,
                   mode, game, solverGame, models, auxModel, chat, chats,
                   player, response, parsed, solChat, status, trace>>

\* Lines 362-381: the solver's turn of a round.
ESolTurn ==
    /\ mode = "equation"
    /\ pc = "e_solver"
    /\ \E r \in SolverReplies :
         /\ solChat' = SolChatReset(solChat, UserMessage(state.equation))
                           \o <<AssistantMessage(r)>>
         /\ state' = EquationSolverUpdateState(state, r)
         /\ trace' = Append(trace, [op |-> "solver", answer |-> r])
    /\ pc' = "e_evaluate"
    /\ UNCHANGED <<chatsFile, thrown, winner, winnerCalls,
                   mode, game, solverGame, models, auxModel, chat, chats,
                   player, response, parsed, genChat, status>>

\* Line 384: generatorStatus = await solverGame.evaluateStatus(state).
EEvaluate ==
    /\ mode = "equation"
    /\ pc = "e_evaluate"
    /\ status' = EquationSolverEvaluateStatus(state)
    /\ pc' = "e_while"
    /\ UNCHANGED <<chatsFile, thrown, winner, winnerCalls,
                   mode, game, solverGame, models, auxModel, chat, chats,
                   player, response, parsed, genChat, solChat, state, trace>>

\* Lines 312-314.
EquationInit ==
    /\ mode = "equation"
    /\ pc = "e_first"
    /\ game = NoGame
    /\ solverGame = NoGame
    /\ models = <<0, 1>>
    /\ auxModel = [r \in {} |-> r]
    /\ chat = <<>>
    /\ chats = <<>>
    /\ genChat = <<>>
    /\ solChat = <<>>
    /\ state = EquationInitializeState
    /\ status = Ongoing
    /\ player = 0
    /\ response = NoMessage
    /\ parsed = <<>>
    /\ trace = <<>>
    /\ winner = NoWinner
    /\ winnerCalls = 0
    /\ thrown = "none"
    /\ chatsFile = <<>>

EquationNext ==
    \/ EGenFirst
    \/ EWhile
    \/ EGenTurn
    \/ ESolTurn
    \/ EEvaluate

EquationSpec == EquationInit /\ [][EquationNext]_vars

\* ----------------------------------------------------------- texas hold'em
\* multiplayerGameLoop (src/gameLoop.ts, lines 196-281) driving texasHoldEm
\* (src/games/poker.ts, lines 117-241 and 480-559).  The cards are not
\* modelled: communityCards is the number of community cards, and the
\* comparison of the hands at a showdown may name any player still in.
MaxPokerPlayers == 3

\* initializeState, line 534: chips: 1000.
StartChips == 1000

PokerPhases == <<"pre-flop", "flop", "turn", "river", "showdown">>

\* The extracted answer after action.trim().toLowerCase().split(/\s+/):
\* the four commands, raises by 400 and by 1000, a raise by 0, one by a
\* word, one with no amount, and an unknown command.
PokerAnswers ==
    {<<"fold">>, <<"check">>, <<"call">>,
     <<"raise", <<"4", "0", "0">> >>, <<"raise", <<"1", "0", "0", "0">> >>,
     <<"raise", <<"0">> >>, <<"raise", <<"a">> >>, <<"raise">>, <<"bet">>}

\* isNaN(parseInt(token, 10)) for a token without a sign.
PokerIsNaN(token) == token = <<>> \/ Head(token) \notin Digits

\* The players still in: state.players.filter((p) => !p.folded).
PokerActive(st) == {i \in DOMAIN st.players : ~st.players[i].folded}

\* An updateState that does not compare the amount due with the player's
\* chips.
PokerRejectedChipsUnchecked(st, seat, parts) ==
    LET p == st.players[seat]
        command == parts[1]
    IN CASE command = "fold" -> FALSE
         [] command = "check" -> p.bet # st.currentBet
         [] command = "call" -> FALSE
         [] command = "raise" ->
              \/ Len(parts) < 2
              \/ PokerIsNaN(parts[2])
              \/ ParseInt(parts[2]) <= 0
         [] OTHER -> TRUE

\* Lines 136-185: the throws of updateState, all of them before the first
\* assignment to the state.
PokerRejected(st, seat, parts) ==
    LET p == st.players[seat]
        command == parts[1]
    IN CASE command = "fold" -> FALSE
         [] command = "check" -> p.bet # st.currentBet
         [] command = "call" -> p.chips < st.currentBet - p.bet
         [] command = "raise" ->
              \/ Len(parts) < 2
              \/ PokerIsNaN(parts[2])
              \/ ParseInt(parts[2]) <= 0
              \/ p.chips < st.currentBet + ParseInt(parts[2]) - p.bet
         [] OTHER -> TRUE

\* Lines 136-188 for an action that is not rejected: the switch, then
\* playersActed.add(currentPlayer).
PokerApply(st, seat, parts) ==
    LET p == st.players[seat]
        command == parts[1]
        callAmount == st.currentBet - p.bet
        newBet == st.currentBet + ParseInt(parts[2])
        additionalAmount == newBet - p.bet
    IN CASE command = "fold" ->
              [st EXCEPT !.players[seat].folded = TRUE,
                         !.playersActed = @ \cup {seat}]
         [] command = "check" ->
              [st EXCEPT !.playersActed = @ \cup {seat}]
         [] command = "call" ->
              [st EXCEPT !.players[seat].chips = @ - callAmount,
                         !.players[seat].bet = st.currentBet,
                         !.pot = @ + callAmount,
                         !.playersActed = @ \cup {seat}]
         [] command = "raise" ->
              [st EXCEPT !.players[seat].chips = @ - additionalAmount,
                         !.players[seat].bet = newBet,
                         !.pot = @ + additionalAmount,
                         !.currentBet = newBet,
                         !.playersActed = {seat}]

\* A round test that asks every player still in to have acted.
PokerRoundCompleteAllActed(st) ==
    /\ \A i \in PokerActive(st) : st.players[i].bet = st.currentBet
    /\ PokerActive(st) \subseteq st.playersActed

\* Lines 191-193: allMatched && playersActed.size >= activePlayers.length.
PokerRoundComplete(st) ==
    /\ \A i \in PokerActive(st) : st.players[i].bet = st.currentBet
    /\ Cardinality(st.playersActed) >= Cardinality(PokerActive(st))

\* Lines 200-216: the next phase and the community cards dealt for it.
PokerNextPhase(phase) ==
    CASE phase = "pre-flop" -> "flop"
      [] phase = "flop" -> "turn"
      [] phase = "turn" -> "river"
      [] phase = "river" -> "showdown"
      [] OTHER -> phase

\* A dealer who deals no community cards.
PokerDealtNothing(phase) == 0

\* Lines 202-213: three cards for the flop, one for the turn, one for the
\* river.
PokerDealt(phase) ==
    CASE phase = "pre-flop" -> 3
      [] phase = "flop" -> 1
      [] phase = "turn" -> 1
      [] OTHER -> 0

\* Lines 190-217.
PokerAdvance(st) ==
    IF PokerRoundComplete(st)
    THEN [st EXCEPT
            !.players = [i \in DOMAIN st.players |->
                            [st.players[i] EXCEPT !.bet = 0]],
            !.currentBet = 0,
            !.playersActed = {},
            !.phase = PokerNextPhase(st.phase),
            !.communityCards = @ + PokerDealt(st.phase)]
    ELSE st

\* Lines 220-224: from seat + 1 on, the first player still in; seat + 1
\* itself if there is none.
PokerNextPlayer(st, seat) ==
    LET n == Len(st.players)
        after(k) == (seat + k) % n
    IN IF PokerActive(st) = {} THEN after(1) + 1
       ELSE after(CHOOSE k \in 1..n :
                     /\ (after(k) + 1) \in PokerActive(st)
                     /\ \A m \in 1..(k - 1) :
                            (after(m) + 1) \notin PokerActive(st)) + 1

\* updateState, lines 117-228, for an action that is not rejected.  Seats
\* are counted from 0 as in the source; st.players is indexed from 1.
PokerUpdateState(st, parts, seat) ==
    LET applied == PokerAdvance(PokerApply(st, seat + 1, parts))
    IN [applied EXCEPT !.currentPlayer = PokerNextPlayer(applied, seat) - 1]

\* evaluateStatus, lines 232-241.
PokerEvaluateStatus(st) ==
    IF Cardinality(PokerActive(st)) <= 1 THEN Win
    ELSE IF st.phase = "showdown" THEN Win
    ELSE Ongoing

\* shouldSkip, line 556.
PokerShouldSkip(st, seat) == st.players[seat + 1].folded

\* determineWinner throws: with nobody in (line 486), and at line 508
\* when bestHandFromSeven returned null, which it does when hand and
\* community cards are fewer than five (lines 445-455: no combination of
\* five, best stays null, bestHand.handName is a TypeError).
PokerWinnerThrows(st) ==
    IF PokerActive(st) = {} THEN "Error"
    ELSE IF 2 + st.communityCards < 5 THEN "TypeError"
    ELSE "none"

\* determineWinner, lines 480-515: the number (index + 1) of a player still
\* in, the one whose hand compares best.
PokerWinners(st) == PokerActive(st)

\* initializeState, lines 528-551.
PokerInitializeState(playersCount) ==
    [players |-> [i \in 1..playersCount |->
                    [chips |-> StartChips, bet |-> 0, folded |-> FALSE]],
     communityCards |-> 0,
     currentBet |-> 0,
     pot |-> 0,
     phase |-> "pre-flop",
     currentPlayer |-> (0 + 1) % playersCount,
     playersActed |-> {}]

\* texasHoldEm as the engine sees it.
texasHoldEm ==
    [answerParserPrompt |-> "string", dynamic |-> TRUE, players |-> 0,
     hasShouldSkip |-> TRUE, skipSeats |-> {}, skipWhen |-> "always"]

\* Line 207 and lines 270-281 of multiplayerGameLoop, with
\* texasHoldEm.winner.
HWhile ==
    /\ mode = "poker"
    /\ pc = "h_while"
    /\ IF status = Ongoing
       THEN /\ player' = 0
            /\ pc' = "h_for"
            /\ UNCHANGED <<winner, winnerCalls, thrown>>
       ELSE /\ player' = player
            /\ winnerCalls' = winnerCalls + 1
            /\ IF PokerWinnerThrows(state) # "none"
               THEN /\ pc' = "error"
                    /\ thrown' = Propagate(PokerWinnerThrows(state))
                    /\ winner' = winner
               ELSE /\ pc' = "done"
                    /\ winner' \in PokerWinners(state)
                    /\ thrown' = thrown
    /\ UNCHANGED <<chatsFile,
                   mode, game, solverGame, models, auxModel, chat, chats,
                   genChat, solChat, state, status, response, parsed, trace>>

\* Lines 208-263, one pass of the for loop: the loop ends, or the seat is
\* skipped, or it is prompted, its answer extracted and handed to
\* updateState, which throws or returns the new state; evaluateStatus is
\* called and the round is left if the game is over.
HMove ==
    /\ mode = "poker"
    /\ pc = "h_for"
    /\ IF player >= SeatCount
       THEN /\ pc' = "h_while"
            /\ UNCHANGED <<player, state, status, parsed, thrown>>
       ELSE IF PokerShouldSkip(state, player)
       THEN /\ pc' = "h_for"
            /\ player' = NextPlayer(player)
            /\ UNCHANGED <<state, status, parsed, thrown>>
       ELSE \E parts \in PokerAnswers :
              /\ parsed' = [seat |-> player, parts |-> parts]
              /\ IF PokerRejected(state, player + 1, parts)
                 THEN /\ pc' = "error"
                      /\ thrown' = Propagate("GameError")
                      /\ UNCHANGED <<player, state, status>>
                 ELSE /\ state' = PokerUpdateState(state, parts, player)
                      /\ status' = PokerEvaluateStatus(state')
                      /\ thrown' = thrown
                      /\ IF BreakRound(status')
                         THEN pc' = "h_while" /\ player' = player
                         ELSE pc' = "h_for" /\ player' = NextPlayer(player)
    /\ UNCHANGED <<chatsFile, winner, winnerCalls,
                   mode, game, solverGame, models, auxModel, chat, chats,
                   genChat, solChat, response, trace>>

\* Lines 202-204, for 1 to MaxPokerPlayers participants.
PokerInit ==
    /\ mode = "poker"
    /\ pc = "h_while"
    /\ game = texasHoldEm
    /\ solverGame = NoGame
    /\ \E n \in 1..MaxPokerPlayers :
          /\ models = [i \in 1..n |-> 0]
          /\ state = PokerInitializeState(n)
    /\ auxModel = [r \in {} |-> r]
    /\ chat = <<>>
    /\ chats = <<>>
    /\ genChat = <<>>
    /\ solChat = <<>>
    /\ status = Ongoing
    /\ player = 0
    /\ response = NoMessage
    /\ parsed = [seat |-> 0, parts |-> <<>>]
    /\ trace = <<>>
    /\ winner = NoWinner
    /\ winnerCalls = 0
    /\ thrown = "none"
    /\ chatsFile = <<>>

PokerNext ==
    \/ HWhile
    \/ HMove

PokerSpec == PokerInit /\ [][PokerNext]_vars

\* ------------------------------------------------------------------ snake
\* The part of snakeGame's state that evaluateStatus and winner read: the
\* alive flag of every snake, snake i at position i + 1.
SnakeAliveFlags == UNION {[1..n -> BOOLEAN] : n \in 1..MaxSeats}

\* aliveIndices: the 0-based indices of the snakes alive.
SnakeAliveIndices(alive) == {i \in 0..(Len(alive) - 1) : alive[i + 1]}

SnakeEvaluateStatus(alive) ==
    IF Cardinality(SnakeAliveIndices(alive)) = 0 THEN Draw
    ELSE IF Cardinality(SnakeAliveIndices(alive)) = 1 THEN Win
    ELSE Ongoing

\* winner: aliveIndices[0] + 1 if one snake survives, otherwise 0.
SnakeWinner(alive) ==
    IF Cardinality(SnakeAliveIndices(alive)) = 1
    THEN (CHOOSE i \in SnakeAliveIndices(alive) : TRUE) + 1
    ELSE 0

\* A position is <<x, y>>; a snake is its body (head first), its alive
\* flag and its pendingMove ("none" for undefined).
SnakeMoves == {"up", "down", "left", "right"}

\* initializeState, lines 116-117.
BoardSize == 10

\* A run is followed for MaxSnakeTurns resolutions.
MaxSnakeTurns == 1

\* Bodies of snakes in the middle of a game: one of three cells along the
\* top edge with its head in the corner, one of a single cell and one of
\* two cells below it, and one of a single cell further off.
SnakeBodies ==
    {<< <<0, 0>>, <<1, 0>> , <<2, 0>> >>,
     << <<1, 1>> >>,
     << <<1, 1>>, <<1, 2>> >>,
     << <<4, 4>> >>}

\* The cells randInt picks for new apples: the model takes them from the
\* bottom row.
AppleCells == {<<x, BoardSize - 1>> : x \in 0..5}

\* The apples of a state in the middle of a game: five, with or without
\* one above the snake at <<4, 4>>.
SnakeApples ==
    {{<<x, BoardSize - 1>> : x \in 0..4},
     {<<4, 3>>} \cup {<<x, BoardSize - 1>> : x \in 0..3}}

Cells(body) == {body[k] : k \in 1..Len(body)}

\* Lines 176-197: the new head of a snake with a pending move.
SnakeNewHead(snake) ==
    LET h == snake.body[1]
    IN CASE snake.pendingMove = "down" -> <<h[1], h[2] + 1>>
         [] snake.pendingMove = "left" -> <<h[1] - 1, h[2]>>
         [] snake.pendingMove = "right" -> <<h[1] + 1, h[2]>>
         [] OTHER -> <<h[1], h[2] - 1>>

\* Lines 200-205.
SnakeIsEating(st, i) ==
    st.snakes[i].alive /\ SnakeNewHead(st.snakes[i]) \in st.apples

\* Lines 209-214: the cells of the body that stay, none for a dead snake.
SnakeEffectiveBody(st, i) ==
    LET body == st.snakes[i].body
    IN IF ~st.snakes[i].alive THEN {}
       ELSE IF SnakeIsEating(st, i) \/ Len(body) <= 1 THEN Cells(body)
       ELSE Cells(SubSeq(body, 1, Len(body) - 1))

\* Lines 230-252 for snake i: out of bounds, head to head with a snake
\* that was alive before the resolution, or on the effective body of a
\* snake whose alive flag is set at this point of the forEach.
SnakeDies(st, alive, i) ==
    LET nh == SnakeNewHead(st.snakes[i])
    IN \/ nh[1] < 0 \/ nh[1] >= st.boardWidth
       \/ nh[2] < 0 \/ nh[2] >= st.boardHeight
       \/ \E j \in DOMAIN st.snakes :
             /\ j # i
             /\ st.snakes[j].alive
             /\ SnakeNewHead(st.snakes[j]) = nh
       \/ \E j \in DOMAIN st.snakes :
             alive[j] /\ nh \in SnakeEffectiveBody(st, j)

\* A resolution that tests every snake against the alive flags as they
\* were before the resolution.
SnakeCollisionsAtOnce(st, alive, i) ==
    [k \in DOMAIN st.snakes |->
        st.snakes[k].alive
          /\ ~SnakeDies(st, [j \in DOMAIN st.snakes |-> st.snakes[j].alive], k)]

\* Lines 226-253: the forEach over the snakes from snake i on; a snake
\* that dies has its alive flag cleared before the next one is tested.
RECURSIVE SnakeCollisions(_, _, _)
SnakeCollisions(st, alive, i) ==
    IF i > Len(st.snakes) THEN alive
    ELSE IF alive[i] /\ SnakeDies(st, alive, i)
    THEN SnakeCollisions(st, [alive EXCEPT ![i] = FALSE], i + 1)
    ELSE SnakeCollisions(st, alive, i + 1)

\* Lines 174-269: the snakes after the simultaneous moves: the alive
\* flags, the bodies of the survivors moved or grown, their pending moves
\* cleared.
SnakeResolve(st) ==
    LET before == [j \in DOMAIN st.snakes |-> st.snakes[j].alive]
        alive == SnakeCollisions(st, before, 1)
    IN [k \in DOMAIN st.snakes |->
          LET snake == st.snakes[k]
          IN IF ~alive[k] THEN [snake EXCEPT !.alive = FALSE]
             ELSE [body |-> IF SnakeIsEating(st, k)
                            THEN <<SnakeNewHead(snake)>> \o snake.body
                            ELSE <<SnakeNewHead(snake)>> \o
                                   SubSeq(snake.body, 1, Len(snake.body) - 1),
                   alive |-> TRUE,
                   pendingMove |-> "none"]]

\* Lines 272-278: the apples no surviving snake has eaten.
SnakeApplesLeft(st, snakes) ==
    {a \in st.apples :
        ~\E k \in DOMAIN snakes :
            snakes[k].alive /\ SnakeNewHead(st.snakes[k]) = a}

\* Lines 281-298: the sets of five apples the spawn loop may end with.
SnakeSpawned(left, snakes) ==
    {left \cup new : new \in
        {c \in SUBSET AppleCells :
            /\ Cardinality(left \cup c) = 5
            /\ c \cap left = {}
            /\ \A k \in DOMAIN snakes :
                  snakes[k].alive => c \cap Cells(snakes[k].body) = {}}}

\* Lines 170-172.
SnakeAllMovesCollected(st) ==
    \A k \in DOMAIN st.snakes :
        ~st.snakes[k].alive \/ st.snakes[k].pendingMove # "none"

\* snakeGame as the engine sees it.
snakeGame ==
    [answerParserPrompt |-> "string", dynamic |-> TRUE, players |-> 0,
     hasShouldSkip |-> TRUE, skipSeats |-> {}, skipWhen |-> "always"]

\* Line 207 and lines 270-281 of multiplayerGameLoop, with
\* snakeGame.winner.  A run is followed for MaxSnakeTurns resolutions.
SWhile ==
    /\ mode = "snake"
    /\ pc = "s_while"
    /\ IF status = Ongoing
       THEN /\ state.turn < MaxSnakeTurns
            /\ player' = 0
            /\ pc' = "s_for"
            /\ UNCHANGED <<winner, winnerCalls>>
       ELSE /\ player' = player
            /\ pc' = "done"
            /\ IF CallWinner(status)
               THEN /\ winner' = SnakeWinner(
                          [k \in DOMAIN state.snakes |-> state.snakes[k].alive])
                    /\ winnerCalls' = winnerCalls + 1
               ELSE /\ winner' = NoWinner
                    /\ winnerCalls' = winnerCalls
    /\ UNCHANGED <<chatsFile, thrown,
                   mode, game, solverGame, models, auxModel, chat, chats,
                   genChat, solChat, state, status, response, parsed, trace>>

\* Lines 208-263 of multiplayerGameLoop, one pass of the for loop, with
\* snakeGame.shouldSkip (lines 321-323), updateState (152-303) and
\* evaluateStatus (304-313).  `trace` keeps the state the latest
\* resolution started from.
SMove ==
    /\ mode = "snake"
    /\ pc = "s_for"
    /\ IF player >= SeatCount
       THEN /\ pc' = "s_while"
            /\ UNCHANGED <<player, state, status, parsed, thrown, trace>>
       ELSE IF ~state.snakes[player + 1].alive
       THEN /\ pc' = "s_for"
            /\ player' = NextPlayer(player)
            /\ UNCHANGED <<state, status, parsed, thrown, trace>>
       ELSE \E move \in SnakeMoves \cup {"jump"} :
              /\ parsed' = move
              /\ IF move \notin SnakeMoves
                 THEN /\ pc' = "error"
                      /\ thrown' = Propagate("GameError")
                      /\ UNCHANGED <<player, state, status, trace>>
                 ELSE LET pending ==
                            [state EXCEPT
                               !.snakes[player + 1].pendingMove = move]
                      IN /\ IF SnakeAllMovesCollected(pending)
                            THEN /\ \E apples \in SnakeSpawned(
                                        SnakeApplesLeft(pending,
                                            SnakeResolve(pending)),
                                        SnakeResolve(pending)) :
                                      state' = [pending EXCEPT
                                         !.snakes = SnakeResolve(pending),
                                         !.apples = apples,
                                         !.turn = @ + 1]
                                 /\ trace' = <<pending>>
                            ELSE /\ state' = pending
                                 /\ trace' = trace
                         /\ status' = SnakeEvaluateStatus(
                               [k \in DOMAIN state'.snakes |->
                                   state'.snakes[k].alive])
                         /\ thrown' = thrown
                         /\ IF BreakRound(status')
                            THEN pc' = "s_while" /\ player' = player
                            ELSE pc' = "s_for" /\ player' = NextPlayer(player)
    /\ UNCHANGED <<chatsFile, winner, winnerCalls,
                   mode, game, solverGame, models, auxModel, chat, chats,
                   genChat, solChat, response>>

\* Two snakes in the middle of a game, in either order of the seats,
\* with bodies that do not touch.
SnakeInit ==
    /\ mode = "snake"
    /\ pc = "s_while"
    /\ game = snakeGame
    /\ solverGame = NoGame
    /\ models = <<0, 1>>
    /\ auxModel = [r \in {} |-> r]
    /\ chat = <<>>
    /\ chats = <<>>
    /\ genChat = <<>>
    /\ solChat = <<>>
    /\ \E b1 \in SnakeBodies, b2 \in SnakeBodies, apples \in SnakeApples :
          /\ Cells(b1) \cap Cells(b2) = {}
          /\ state = [boardWidth |-> BoardSize, boardHeight |-> BoardSize,
                      apples |-> apples,
                      snakes |-> <<[body |-> b1, alive |-> TRUE,
                                    pendingMove |-> "none"],
                                   [body |-> b2, alive |-> TRUE,
                                    pendingMove |-> "none"]>>,
                      turn |-> 0]
    /\ status = Ongoing
    /\ player = 0
    /\ response = NoMessage
    /\ parsed = "none"
    /\ trace = <<>>
    /\ winner = NoWinner
    /\ winnerCalls = 0
    /\ thrown = "none"
    /\ chatsFile = <<>>

SnakeNext ==
    \/ SWhile
    \/ SMove

SnakeSpec == SnakeInit /\ [][SnakeNext]_vars

\* ---------------------------------------------------------------- claims
Max(S) == CHOOSE x \in S : \A y \in S : y <= x

\* The result of the most recent evaluateStatus call.
LatestStatus ==
    IF Events("evaluateStatus") = {} THEN "none"
    ELSE trace[Max(Events("evaluateStatus"))].result

\* The game state as it was when the call at position i of the history was
\* made: the answers folded in before it.
StateAt(i) ==
    SubSeq(state, 1, Cardinality({j \in Events("updateState") : j < i}))

\* The run is over.
Finished == pc \in {"done", "error"}

\* C1: gameLoop goes on prompting exactly while the most recent
\* evaluateStatus result is Ongoing: it has returned only if that result is
\* Win, Loss or Draw, it makes no call after an evaluateStatus that was not
\* Ongoing, it prompts again only after an Ongoing result, and it is never
\* stuck before the next prompt (there is no turn cap).
C1_LoopWhileOngoing ==
    mode = "single" =>
      /\ pc = "done" => LatestStatus \in {Win, Loss, Draw}
      /\ \A i \in Events("evaluateStatus") :
           trace[i].result # Ongoing => i = Len(trace)
      /\ pc = "g_turn" => LatestStatus = Ongoing
      /\ pc = "g_while" => ENABLED GWhile
      /\ pc \in {"g_first", "g_turn"} => ENABLED GPrompt

C1_Witness ==
    /\ mode = "single"
    /\ pc = "done"
    /\ Count("evaluateStatus") = 3
    /\ LatestStatus = Loss

\* C2 (as claimed): gameLoop and multiplayerGameLoop make at most MaxCalls
\* participant calls, MaxCalls being the number of evaluateStatus calls
\* within which the game leaves Ongoing, and every run of them ends.
C2_Terminates ==
    /\ [](mode # "adversarial" => Count("complete") <= MaxCalls)
    /\ (mode # "adversarial" => <>Finished)

\* The seat that acts next after seat a in a state st: the first seat in
\* the order a+1, ..., n-1, 0, ..., a the game does not report inactive.
Inactive(st, seat) == game.hasShouldSkip /\ ShouldSkip(st, seat)
ActiveAhead(a, st) ==
    {d \in 1..SeatCount : ~Inactive(st, (a + d) % SeatCount)}
SeatAfter(a, st) ==
    (a + (CHOOSE d \in ActiveAhead(a, st) :
            \A e \in ActiveAhead(a, st) : d <= e)) % SeatCount

\* C3: in multiplayerGameLoop the seats act one at a time in ascending
\* order, wrapping to 0: the first updateState is for the first active seat
\* from 0 on, and each later one for the first active seat after the seat
\* of the previous updateState; without skips the k-th updateState is for
\* seat (k - 1) mod seatCount.
C3_SeatOrder ==
    mode = "multi" =>
      /\ \A k \in 1..Len(state) :
           /\ ActiveAhead(-1, SubSeq(state, 1, k - 1)) # {}
           /\ state[k].seat =
                SeatAfter(IF k = 1 THEN -1 ELSE state[k - 1].seat,
                          SubSeq(state, 1, k - 1))
      /\ ~game.hasShouldSkip =>
           \A k \in 1..Len(state) : state[k].seat = (k - 1) % SeatCount
      /\ \A i \in Events("updateState") :
           trace[i - 1].op \in {"reply", "extract"}

C3_Witness ==
    /\ mode = "multi"
    /\ SeatCount = 3
    /\ ~game.hasShouldSkip
    /\ [k \in 1..Len(state) |-> state[k].seat] = <<0, 1, 2>>
    /\ pc = "done"

\* C4: in multiplayerGameLoop every updateState is followed at once by an
\* evaluateStatus, and after an evaluateStatus whose result is not Ongoing
\* the engine makes no further call: no seat is prompted or updated.
C4_StopMidRound ==
    mode = "multi" =>
      /\ \A i \in Events("updateState") :
           i < Len(trace) => trace[i + 1].op = "evaluateStatus"
      /\ \A i \in Events("evaluateStatus") :
           /\ trace[i - 1].op = "updateState"
           /\ trace[i].result # Ongoing => i = Len(trace)

C4_Witness ==
    /\ mode = "multi"
    /\ SeatCount = 2
    /\ Len(models) = 2
    /\ pc = "done"
    /\ Len(state) = 1
    /\ status = Win
    /\ chats[1] = <<>>

\* C5: in multiplayerGameLoop a seat is never prompted, its participant
\* never called and updateState never called for it in a state for which
\* shouldSkip holds of it; a seat that is always skipped keeps an empty
\* conversation.
C5_SkipRespected ==
    mode = "multi" =>
      /\ \A i \in Events("complete") \cup Events("updateState") :
           ~Inactive(StateAt(i), trace[i].seat)
      /\ \A p \in DOMAIN chats :
           (Inactive(<<>>, p) /\ game.skipWhen = "always") => chats[p] = <<>>
      /\ \A p \in DOMAIN chats :
           chats[p] = <<>> => \A i \in Events("complete") : trace[i].seat # p

C5_Witness ==
    /\ mode = "multi"
    /\ SeatCount = 3
    /\ Len(models) = 3
    /\ game.hasShouldSkip /\ game.skipSeats = {1} /\ game.skipWhen = "always"
    /\ [k \in 1..Len(state) |-> state[k].seat] = <<0, 2, 0>>
    /\ chats[1] = <<>>
    /\ Len(chats[0]) = 4 /\ Len(chats[2]) = 2
IsPrefix(a, b) == Len(a) <= Len(b) /\ SubSeq(b, 1, Len(a)) = a

\* C6: the conversation of gameLoop, every seat's conversation of
\* multiplayerGameLoop and the generator's conversation of
\* adversarialGameLoop only grow: each step keeps all messages they hold,
\* in place and unchanged.
C6_AppendOnly ==
    [][/\ IsPrefix(chat, chat')
       /\ IsPrefix(genChat, genChat')
       /\ DOMAIN chats' = DOMAIN chats
       /\ \A p \in DOMAIN chats : IsPrefix(chats[p], chats'[p])]_vars

C6_Witness ==
    /\ mode = "multi"
    /\ Len(models) = 2
    /\ Len(chats[0]) = 4
    /\ Len(chats[1]) = 2

\* The n-th smallest element of a set of positions.
Nth(S, n) == CHOOSE i \in S : Cardinality({j \in S : j <= i}) = n

\* The calls of complete for a seat, and the replies of a seat.
CallsOf(p) == {i \in Events("complete") : trace[i].seat = p}
RepliesOf(p) == {i \in Events("reply") : trace[i].seat = p}

\* C7: in multiplayerGameLoop conversation i holds exactly the prompts sent
\* to seat i and the replies of seat i's participant, in order, and every
\* call of a participant is made for a seat that has a conversation, with
\* that conversation as it then was.
C7_OwnConversation ==
    mode = "multi" =>
      /\ \A i \in Events("complete") : trace[i].seat \in DOMAIN chats
      /\ \A p \in DOMAIN chats :
           /\ Len(chats[p]) =
                Cardinality(CallsOf(p)) + Cardinality(RepliesOf(p))
           /\ \A k \in 1..Len(chats[p]) :
                IF k % 2 = 1
                THEN /\ chats[p][k].role = "user"
                     /\ chats[p][k].content.seat = p
                     /\ trace[Nth(CallsOf(p), (k + 1) \div 2)].conv =
                          SubSeq(chats[p], 1, k)
                ELSE chats[p][k] = trace[Nth(RepliesOf(p), k \div 2)].message

C7_Witness ==
    /\ mode = "multi"
    /\ Len(models) = 3
    /\ Len(chats[0]) = 2
    /\ Len(chats[1]) = 2
    /\ Len(chats[2]) = 1
    /\ chats[0][2] # chats[1][2]

\* C8: in gameLoop and multiplayerGameLoop, with answerParserPrompt left
\* out, null or empty the auxiliary participant is never called and every
\* updateState gets the content of the reply just received, as it is.
C8_ExtractionBypass ==
    (mode \in {"single", "multi"}
       /\ game.answerParserPrompt \in {"undefined", "null", "empty"}) =>
      /\ Events("extract") = {}
      /\ \A i \in Events("updateState") :
           /\ trace[i - 1].op = "reply"
           /\ trace[i].answer = trace[i - 1].message.content

C8_Witness ==
    /\ mode = "multi"
    /\ game.answerParserPrompt = "empty"
    /\ Len(state) = 2
    /\ state[1].answer = <<" ", "y">>
    /\ state[2].answer = <<"x">>

\* The answerParserPrompt of the game an updateState call belongs to.
ParserOf(name) ==
    IF name = "solverGame" THEN solverGame.answerParserPrompt
    ELSE game.answerParserPrompt

\* C9 (as claimed): in all three loops, every updateState of a game that
\* defines an answerParserPrompt comes right after an extraction step and
\* gets that step's result.
C9_ExtractBeforeUpdate ==
    \A i \in Events("updateState") :
      ParserOf(trace[i].game) \in {"string", "function"} =>
        /\ trace[i - 1].op = "extract"
        /\ trace[i].answer = trace[i - 1].result

\* t is s without the white space at its two ends.
IsTrimOf(t, s) ==
    /\ t # <<>> => (t[1] \notin WhiteSpace /\ t[Len(t)] \notin WhiteSpace)
    /\ \E a \in 0..Len(s) : \E b \in a..Len(s) :
         /\ t = SubSeq(s, a + 1, b)
         /\ \A k \in (1..a) \cup ((b + 1)..Len(s)) : s[k] \in WhiteSpace

\* C10: every extraction step calls models["GPT-4o"] with two messages, a
\* system message with the game's parser prompt (a function is applied to
\* the state without the reply at hand) and a user message with the reply
\* just received; its result is the reply of models["GPT-4o"] to that
\* text, trimmed.
C10_ExtractionCall ==
    \A i \in Events("extract") :
      /\ trace[i].model = "GPT-4o"
      /\ Len(trace[i].conv) = 2
      /\ trace[i].conv[1].role = "system"
      /\ trace[i].conv[1].content =
           IF game.answerParserPrompt = "function"
           THEN [parser |-> "function", state |-> StateAt(i)]
           ELSE [parser |-> "string", state |-> <<>>]
      /\ trace[i].conv[2].role = "user"
      /\ trace[i - 1].op = "reply"
      /\ trace[i].conv[2].content = trace[i - 1].message.content
      /\ trace[i].reply = auxModel[trace[i - 1].message.content]
      /\ IsTrimOf(trace[i].result, trace[i].reply)

C10_Witness ==
    /\ mode = "multi"
    /\ game.answerParserPrompt = "function"
    /\ Len(trace) > 0
    /\ Last(trace).op = "extract"
    /\ trace[Len(trace) - 1].seat = 1
    /\ Last(trace).conv[1].content.state # <<>>
    /\ Last(trace).reply = <<" ", "z", "\n">>
    /\ Last(trace).result = <<"z">>

C12_ErrorAborts ==
    /\ \A i \in Events("throw") :
          /\ i = Len(trace)
          /\ pc = "error"
          /\ thrown = trace[i].error
    /\ pc = "error" => thrown # "none" /\ ~ENABLED ErrNext
    /\ thrown # "none" => pc = "error"

\* updateState throws in a multiplayerGameLoop run after an earlier move
\* went through.
C12_Witness ==
    /\ mode = "multi"
    /\ Events("throw") # {}
    /\ Last(trace).callee = "updateState"
    /\ thrown = "GameError"
    /\ Count("updateState") >= 1

\* C13: a multiplayerGameLoop run with a fixed seat count and fewer
\* participants than seats fails with an error raised before any
\* participant is contacted: no complete call is ever made and the run
\* never returns normally.
C13_TooFewParticipants ==
    (mode = "multi" /\ ~game.dynamic /\ Len(models) < game.players)
        => Count("complete") = 0 /\ pc # "done"

\* C14: a multiplayerGameLoop run whose seat count is zero ends with an
\* error (raised before any participant is contacted); it does not keep
\* running.
C14_ZeroSeats ==
    (mode = "multi" /\ SeatCount = 0) => <>(pc = "error")

\* C15: in multiplayerGameLoop game.winner is called only after the loop
\* has exited: exactly once when the final status is not Draw, and not at
\* all when it is Draw, in which case the winner returned is -1.
C15_WinnerCall ==
    mode = "multi" =>
      /\ pc # "done" => winnerCalls = 0
      /\ pc = "done" =>
            IF status = Draw
            THEN winnerCalls = 0 /\ winner = NoWinner
            ELSE winnerCalls = 1 /\ winner \in WinnerResults

\* A run of two moves that ended in a Win and whose winner call returned 1.
C15_Witness ==
    /\ mode = "multi"
    /\ pc = "done"
    /\ status = Win
    /\ Count("updateState") = 2
    /\ winnerCalls = 1
    /\ winner = 1

\* A tic-tac-toe run that ended in a Win: after the break of line 261 the
\* loop variable player still holds the seat that made the last move.
TicTacToeWon == mode = "tictactoe" /\ pc = "done" /\ status = Win

ReplyNumber(r) ==
    CASE r = <<"5", "0">> -> 50
      [] r = <<"4", "0">> -> 40
      [] r = <<" ", "4", "2", "\n">> -> 42

\* The numbers answered so far, in turn order (those already folded in).
NumbersAnswered ==
    [i \in 1..Count("updateState") |->
        ReplyNumber(trace[Nth(Events("reply"), i)].message.content)]

AlwaysWrong == \A i \in 1..Len(state.guesses) : state.guesses[i] # state.target

\* C18: in the number-guessing game driven by gameLoop, as long as the
\* participant answers wrong numbers evaluateStatus returns Ongoing after
\* each of the first seven updateState calls and Loss right after the
\* eighth; the engine never sends a ninth prompt and never calls the
\* participant a ninth time.
C18_LossAfterEight ==
    mode = "guess" =>
      /\ Count("complete") <= MaxGuesses
      /\ Cardinality({i \in 1..Len(chat) : chat[i].role = "user"})
            <= MaxGuesses
      /\ AlwaysWrong =>
            /\ \A n \in 1..Count("evaluateStatus") :
                  trace[Nth(Events("evaluateStatus"), n)].result
                      = IF n = MaxGuesses THEN Loss ELSE Ongoing
            /\ pc = "done" =>
                  /\ status = Loss
                  /\ Count("updateState") = MaxGuesses
                  /\ Count("complete") = MaxGuesses

\* A run of eight wrong answers has returned with Loss.
C18_Witness ==
    /\ mode = "guess"
    /\ pc = "done"
    /\ AlwaysWrong
    /\ Len(state.guesses) = MaxGuesses
    /\ status = Loss
    /\ Count("complete") = MaxGuesses

\* C19: the number-guessing game lets the player win with "8 guesses or
\* less": whenever evaluateStatus has just been called, the most recent
\* guess equals the target and at most 8 guesses have been made (exactly
\* 8 included), its result is Win.
C19_WinWithinEight ==
    (/\ mode = "guess"
     /\ pc \in {"n_while", "done"}
     /\ Len(state.guesses) <= MaxGuesses
     /\ Last(state.guesses) = state.target)
        => status = Win

\* The turns a seat of adversarialGameLoop has taken: the complete calls
\* made for the generator (seat 0) or the solver (seat 1).
TurnsOf(seat) ==
    Cardinality({i \in Events("complete") : trace[i].seat = seat})

\* C20: an adversarialGameLoop run whose status leaves Ongoing in the
\* round of the generator's second turn (the generator has taken exactly
\* two turns when the run returns) has taken exactly two solver turns.
C20_TwoGeneratorTwoSolver ==
    (mode = "adversarial" /\ pc = "done" /\ TurnsOf(0) = 2)
        => TurnsOf(1) = 2

\* C21: adversarialGameLoop returns only after the solver game's
\* evaluateStatus has returned a value other than Ongoing: the last status
\* evaluation of a finished run is the solver game's, and the run holds at
\* least one solver turn.
C21_SolverDecides ==
    (mode = "adversarial" /\ pc = "done") =>
        /\ TurnsOf(1) >= 1
        /\ trace[Max(Events("evaluateStatus"))].game = "solverGame"
        /\ trace[Max(Events("evaluateStatus"))].result # Ongoing

\* The operation logged just before position i of the history.
PrevOp(i) == IF i = 1 THEN "none" ELSE trace[i - 1].op

\* The latest entry of the history is a call of complete for the seat.
\* (The history only grows, so what holds of the latest entry in every
\* state of every run holds of every entry.)
JustCalled(seat) ==
    /\ trace # <<>>
    /\ Last(trace).op = "complete"
    /\ Last(trace).seat = seat

\* C22: in adversarialGameLoop every solver call receives a conversation
\* of exactly one message, the solver game's turn prompt computed from the
\* shared state as the generator's update of that round left it, and the
\* solver conversation never holds more than that prompt and its reply;
\* the generator's conversation is the sequence of all generator prompts
\* and replies of the run.
C22_SolverRebuilt ==
    mode = "adversarial" =>
      /\ JustCalled(1) =>
            /\ Last(trace).conv =
                  <<UserMessage(PromptText("solverGame", "turn", state))>>
            /\ solChat = Last(trace).conv
            /\ Last(state).game = "generatorGame"
            /\ PrevOp(Len(trace)) = "updateState"
      /\ Len(solChat) <= 2
      /\ JustCalled(0) => Last(trace).conv = genChat
      /\ Len(genChat) = TurnsOf(0) + Cardinality(RepliesOf(0))
      /\ \A i \in CallsOf(0) : IsPrefix(trace[i].conv, genChat)
      /\ \A i \in RepliesOf(0) :
            genChat[2 * Cardinality({j \in RepliesOf(0) : j <= i})]
                = trace[i].message

\* The second round's solver call has been answered: the solver
\* conversation holds two messages, the generator's six.
C22_Witness ==
    /\ mode = "adversarial"
    /\ TurnsOf(1) = 2
    /\ Len(solChat) = 2
    /\ Len(genChat) = 6
    /\ solChat[1].content.state # <<>>

\* The order of the events of a turn that all three loops share: a reply
\* answers the call made just before it, for the same seat; extraction
\* follows the reply; updateState follows the reply or its extraction;
\* evaluateStatus follows updateState; and while a participant call is
\* outstanding the loop does nothing but wait for its reply.
TurnOrder ==
    LET i == Len(trace)
    IN /\ i > 0 =>
             /\ trace[i].op = "reply" =>
                   /\ PrevOp(i) = "complete"
                   /\ trace[i - 1].seat = trace[i].seat
             /\ trace[i].op = "extract" => PrevOp(i) = "reply"
             /\ trace[i].op = "updateState" =>
                   PrevOp(i) \in {"reply", "extract"}
             /\ trace[i].op = "evaluateStatus" => PrevOp(i) = "updateState"
       /\ (i > 0 /\ trace[i].op = "complete")
             <=> PendingCall(pc) = "complete"

C24_PromptFromCurrentState ==
    mode = "multi" =>
      /\ Len(state) = Count("updateState")
      /\ (trace # <<>> /\ Last(trace).op = "updateState") =>
            Last(state) = [game |-> Last(trace).game,
                           answer |-> Last(trace).answer,
                           seat |-> Last(trace).seat]
      /\ (trace # <<>> /\ Last(trace).op = "complete") =>
            /\ Last(Last(trace).conv).content.state = state
            /\ Last(Last(trace).conv).content.seat = Last(trace).seat
            /\ Count("reply") = Len(state)

\* The third call of a run with two seats: seat 0 is prompted with the
\* moves of seat 0 and seat 1.
C24_Witness ==
    /\ mode = "multi"
    /\ Count("complete") = 3
    /\ Last(trace).op = "complete"
    /\ Last(trace).seat = 0
    /\ [k \in 1..2 |-> Last(Last(trace).conv).content.state[k].seat]
          = <<0, 1>>

\* The first message of a conversation is a user message with the first
\* prompt, and every other user message holds a turn prompt.
FirstThenTurn(conv) ==
    /\ conv # <<>> => conv[1].role = "user"
    /\ \A i \in 1..Len(conv) :
          conv[i].role = "user" =>
              conv[i].content.kind = IF i = 1 THEN "first" ELSE "turn"

\* C30: in gameLoop the first message of the run is the game's first
\* prompt, sent once, and every later user message is the turn prompt
\* computed from the state current when it was sent; in
\* multiplayerGameLoop the first message a seat receives, in whatever
\* round its first action falls, is the first prompt, and every later
\* user message of that seat is the turn prompt.
C30_FirstThenTurn ==
    /\ mode = "single" =>
          /\ FirstThenTurn(chat)
          /\ JustCalled(0) =>
                /\ Last(trace).conv = chat
                /\ Last(chat).content.state = state
    /\ mode = "multi" =>
          \A p \in DOMAIN chats :
            /\ FirstThenTurn(chats[p])
            /\ JustCalled(p) => Last(trace).conv = chats[p]

\* Seat 0 was skipped in the first round and got the first prompt in the
\* second, computed from a state that already holds seat 1's move.
C30_Witness ==
    /\ mode = "multi"
    /\ Len(models) = 2
    /\ SeatCount = 2
    /\ Len(chats[1]) = 2
    /\ Len(chats[0]) = 1
    /\ chats[0][1].content.kind = "first"
    /\ chats[0][1].content.state # <<>>

\* C25: in benchmarkGame a run that throws is caught where it happened:
\* it counts towards neither total nor wins of its model (total is the
\* number of the model's runs that returned, wins the number that returned
\* Win), the benchmark itself never throws, every model is run in every
\* iteration, and in the end 0 <= wins <= total <= iterations holds for
\* every model with winRate = wins / total * 100, or 0 when total is 0.
C25_ErrorsCaught ==
    mode = "bench" =>
      /\ thrown = "none" /\ pc # "error"
      /\ \A k \in 1..Len(models) :
            LET r == state.results[k]
                h == trace[k]
            IN /\ r.total = h.runs - h.errors
               /\ r.wins = h.won
               /\ 0 <= r.wins /\ r.wins <= r.total
               /\ r.total <= state.iterations
               /\ h.runs = IF state.i < state.iterations /\ k <= state.j
                           THEN state.i + 1 ELSE state.i
               /\ pc \in {"b_rates", "done"} => h.runs = state.iterations
               /\ pc = "done" =>
                     r.winRate = IF r.total = 0 THEN Rate(0, 1)
                                 ELSE Rate(r.wins * 100, r.total)

\* A finished benchmark of two iterations in which the first model threw
\* once and won once and the second model lost twice.
C25_Witness ==
    /\ mode = "bench"
    /\ pc = "done"
    /\ Len(models) = 2
    /\ state.iterations = 2
    /\ trace[1].errors = 1
    /\ state.results[1] = [wins |-> 1, total |-> 1, winRate |-> Rate(100, 1)]
    /\ state.results[2] = [wins |-> 0, total |-> 2, winRate |-> Rate(0, 2)]

\* The latest guess is the solution, letter case aside.
WordleSolved ==
    ToLowerCase(Last(state.guesses)) = ToLowerCase(state.solution)

\* C26: for Wordle, whenever evaluateStatus has just been called its
\* result is Win exactly when the latest guess equals the solution, letter
\* case ignored, also on the sixth guess; it is Loss when the latest guess
\* is not the solution and six or more guesses have been made; and it is
\* Ongoing for any other five-letter guess.  Driven by gameLoop, Wordle
\* never gets a seventh prompt.
C26_WordleStatus ==
    mode = "wordle" =>
      /\ pc \in {"w_while", "done"} =>
            /\ status = Win <=> WordleSolved
            /\ (~WordleSolved /\ Len(state.guesses) >= MaxWordleGuesses)
                  => status = Loss
            /\ (/\ ~WordleSolved
                /\ Len(state.guesses) < MaxWordleGuesses
                /\ Len(Last(state.guesses)) = WordLength)
                  => status = Ongoing
      /\ Count("complete") <= MaxWordleGuesses
      /\ Len(state.guesses) <= MaxWordleGuesses

\* A run won on the sixth guess, with the solution given in capitals.
C26_Witness ==
    /\ mode = "wordle"
    /\ pc = "done"
    /\ Len(state.guesses) = MaxWordleGuesses
    /\ Last(state.guesses) = <<"F", "L", "A", "M", "E">>
    /\ status = Win

\* Every Pokemon of team t (1 or 2) has fainted.
AllFainted(t) ==
    \A i \in 1..Len(state.players[t]) : state.players[t][i] <= 0

\* C27: in the Pokemon battle, evaluateStatus returns Win exactly when
\* every Pokemon of exactly one team has currentHP <= 0, Draw when every
\* Pokemon of both teams has fainted and Ongoing otherwise; and on a Win
\* winner names the team that still has a Pokemon with currentHP > 0.
C27_PokemonStatus ==
    mode = "pokemon" =>
      /\ pc \in {"p_winner", "done"} =>
            /\ status = Win <=> (AllFainted(1) # AllFainted(2))
            /\ (AllFainted(1) /\ AllFainted(2)) => status = Draw
            /\ (~AllFainted(1) /\ ~AllFainted(2)) => status = Ongoing
      /\ (pc = "done" /\ status = Win) =>
            /\ winner \in 1..2
            /\ ~AllFainted(winner)
            /\ AllFainted(3 - winner)

\* The second team has won: the first team's two Pokemon have fainted and
\* one Pokemon of the second team has fainted too.
C27_Witness ==
    /\ mode = "pokemon"
    /\ pc = "done"
    /\ state.players = <<(<<0, 0>>), (<<0, 1>>)>>
    /\ status = Win
    /\ winner = 2

\* C28: OpenAIReasoningModel.complete uses the model's default reasoning
\* effort only when the caller's options carry no reasoning_effort: the
\* reasoning_effort of the latest request is the one the caller supplied,
\* if the caller supplied one.
C28_SuppliedEffortSent ==
    (mode = "reasoning" /\ trace # <<>>) =>
        (Last(trace).options # NoEffort
            => Last(trace).reasoning_effort = Last(trace).options)

\* The operations before the latest one that decide what the cache holds
\* for key k: set(k, _), remove(k) and clear.
Deciding(k) ==
    {j \in 1..(Len(trace) - 1) :
        \/ trace[j].op = "clear"
        \/ trace[j].op \in {"set", "remove"} /\ trace[j].key = k}

\* Before the latest operation key k was present: the last operation that
\* decided it was a set.
Present(k) ==
    /\ Deciding(k) # {}
    /\ trace[Max(Deciding(k))].op = "set"

\* C29: cache round trip.  A get(k) returns the value of the last set(k, v)
\* if no remove(k) or clear came after it, whatever was done to other
\* keys, and null if k was never set or was removed or cleared since; a
\* remove(k) returns true exactly when k was present.
C29_CacheRoundTrip ==
    (mode = "cache" /\ trace # <<>>) =>
        LET e == Last(trace)
        IN /\ e.op = "get" =>
                e.result = IF Present(e.key)
                           THEN trace[Max(Deciding(e.key))].value
                           ELSE "null"
           /\ e.op = "remove" =>
                (e.result = "true" <=> Present(e.key))

\* C31 as stated: multiplayerGameLoop writes the full per-seat transcript
\* after every single seat's move: whenever a move has been evaluated and
\* the loop goes on to the next seat or to the while condition, the file
\* holds every conversation as it stands.
C31_WrittenAfterEveryMove ==
    (/\ mode = "multi"
     /\ pc \in {"m_for", "m_while", "done"}
     /\ trace # <<>>) => chatsFile = chats

\* C31, amended: the transcript is written once per round, after the for
\* loop over the seats has ended or was left by the break: whenever a
\* round with a move is over, and when the run has returned, the file
\* holds every conversation as it stands.
C31_WrittenAfterEveryRound ==
    (/\ mode = "multi"
     /\ pc \in {"m_while", "done"}
     /\ trace # <<>>) => chatsFile = chats

\* A round of two seats is over, both have moved, and the file holds both
\* conversations.
C31_Witness ==
    /\ mode = "multi"
    /\ pc = "m_while"
    /\ Len(models) = 2
    /\ TurnsOf(0) = 1
    /\ TurnsOf(1) = 1
    /\ chatsFile = chats
    /\ Len(chatsFile[1]) = 2

\* The cells of the board whose content differs between two states.
CellsChanged(old, new) ==
    {rc \in (0..2) \X (0..2) : old.board[rc[1]][rc[2]] # new.board[rc[1]][rc[2]]}

\* One call of tic-tac-toe's updateState with the answer parsed'.
C32_Step ==
    (mode = "tictactoe" /\ pc = "t_for" /\ player < SeatCount) =>
        IF \/ parsed' \notin DOMAIN moveMap
           \/ state.board[moveMap[parsed'][1]][moveMap[parsed'][2]] # EmptyCell
        THEN /\ thrown' # "none"
             /\ pc' = "error"
             /\ state' = state
        ELSE /\ CellsChanged(state, state') = {moveMap[parsed']}
             /\ state'.board[moveMap[parsed'][1]][moveMap[parsed'][2]] =
                    (IF state.turn % 2 = 0 THEN "O" ELSE "X")
             /\ state'.turn = state.turn + 1

\* C32: in tic-tac-toe, updateState rejects an answer that names no cell
\* or names an occupied cell by raising an error, leaving board and turn
\* as they were; a legal move fills exactly one empty cell with the mark
\* of the side to move and increases turn by one.
C32_IllegalMoveRejected == [][C32_Step]_vars

\* A move onto an occupied cell was rejected after three moves.
C32_Witness ==
    /\ mode = "tictactoe"
    /\ pc = "error"
    /\ thrown # "none"
    /\ parsed \in DOMAIN moveMap
    /\ state.board[moveMap[parsed][1]][moveMap[parsed][2]] # EmptyCell
    /\ state.turn = 4

\* C33: an adversarialGameLoop run of the equation generator and solver
\* games ends at the end of the first round in which the solver's answer
\* is not exactly "19", also when the solver answered "19" in earlier
\* rounds: when a round is over whose solver answer, trimmed, is not "19",
\* the status is no longer Ongoing.
C33_EndsOnWrongAnswer ==
    (/\ mode = "equation"
     /\ pc = "e_while"
     /\ trace # <<>>
     /\ Trim(Last(trace).answer) # Nineteen) => status # Ongoing

\* One move of Texas Hold'em that changes the phase and leaves the game
\* on (two or more players still in): with the action applied and before
\* the bets are reset, every player still in has acted since the last
\* raise and has bet the current bet.
C34_Step ==
    (/\ mode = "poker"
     /\ pc = "h_for"
     /\ state'.phase # state.phase
     /\ Cardinality(PokerActive(state')) > 1) =>
        LET applied == PokerApply(state, parsed'.seat + 1, parsed'.parts)
        IN /\ PokerActive(applied) \subseteq applied.playersActed
           /\ \A i \in PokerActive(applied) :
                 applied.players[i].bet = applied.currentBet

\* C34: in Texas Hold'em a betting round moves to the next phase only
\* when every non-folded player has acted since the last raise of that
\* round and all non-folded players' bets equal the current bet.
C34_PhaseOnlyWhenAllActed == [][C34_Step]_vars

\* All players but one have folded.
OneLeftAfterFold ==
    /\ Cardinality(PokerActive(state)) = 1
    /\ Len(state.players) > 1

\* C35: in a Texas Hold'em run under multiplayerGameLoop, once all
\* players but one have folded the run ends with status Win and winner
\* is the number (index + 1) of the one player still in, with no error
\* raised, in whichever phase the last fold happens.
C35_LastPlayerWins ==
    (mode = "poker" /\ OneLeftAfterFold) =>
        /\ status = Win
        /\ pc \in {"h_while", "done"}
        /\ thrown = "none"
        /\ pc = "done" => PokerActive(state) = {winner}

\* The chips of all players and the pot.
PokerChipsTotal(st) ==
    LET RECURSIVE Sum(_)
        Sum(k) == IF k = 0 THEN 0 ELSE st.players[k].chips + Sum(k - 1)
    IN Sum(Len(st.players)) + st.pot

PokerConserved ==
    mode = "poker" =>
        /\ PokerChipsTotal(state) = StartChips * Len(state.players)
        /\ \A i \in DOMAIN state.players : state.players[i].chips >= 0

\* An action that updateState rejects leaves the whole state as it was.
C36_Step ==
    (mode = "poker" /\ pc' = "error" /\ thrown' = "GameError") =>
        state' = state

\* C36: Texas Hold'em conserves chips: in every reachable state the chips
\* of all players plus the pot are 1000 times the number of players and
\* no player's chips are negative; an action rejected with an error
\* changes neither chips, bets, pot nor phase.
C36_ChipsConserved == []PokerConserved /\ [][C36_Step]_vars

\* A check was rejected after a raise: chips have moved to the pot.
C36_Witness ==
    /\ mode = "poker"
    /\ pc = "error"
    /\ thrown = "GameError"
    /\ parsed.parts = <<"check">>
    /\ state.pot = 400
    /\ state.players[1].chips = StartChips - 400

\* C37: in a Texas Hold'em run under multiplayerGameLoop the seat the
\* engine prompts and passes to updateState is always the seat the game
\* state names as next to act, from the first move on.
C37_EngineSeatIsCurrentPlayer ==
    (/\ mode = "poker"
     /\ pc = "h_for"
     /\ player < SeatCount
     /\ ~PokerShouldSkip(state, player)) => player = state.currentPlayer

\* The last fold came before the flop: the run has returned with the
\* flop dealt and the third player as the winner.
C35_Witness ==
    /\ mode = "poker"
    /\ pc = "done"
    /\ Len(state.players) = 3
    /\ PokerActive(state) = {3}
    /\ state.phase = "flop"
    /\ state.communityCards = 3
    /\ status = Win
    /\ winner = 3

\* C38: in snake's simultaneous move resolution a snake whose new head
\* lands on a cell of another living snake's effective pre-move body
\* dies, whether or not that other snake itself dies in the same
\* resolution and whichever of the two has the lower seat index.
C38_BodyCollisionKills ==
    (mode = "snake" /\ trace # <<>>) =>
        LET pre == trace[1]
        IN \A i \in DOMAIN pre.snakes, j \in DOMAIN pre.snakes :
              (/\ i # j
               /\ pre.snakes[i].alive
               /\ pre.snakes[j].alive
               /\ SnakeNewHead(pre.snakes[i]) \in SnakeEffectiveBody(pre, j))
                  => ~state.snakes[i].alive

\* A conversation of prompts and replies in turn, starting with a prompt.
Alternates(conv) ==
    \A k \in 1..Len(conv) :
        conv[k].role = IF k % 2 = 1 THEN "user" ELSE "assistant"

\* The updateState calls made for a seat.
UpdatesOf(seat) ==
    Cardinality({i \in Events("updateState") : trace[i].seat = seat})

\* C39: in every run of gameLoop, whenever evaluateStatus is called the
\* conversation has even length, alternates prompt and reply, and is
\* twice as long as the number of updateState calls so far; a completed
\* run has made equally many participant calls, updateState calls and
\* evaluateStatus calls, and at least one of each.  In multiplayerGameLoop
\* the same holds for the conversation of the seat that has moved and
\* that seat's calls.
C39_ConversationInStep ==
    /\ (/\ mode = "single"
        /\ trace # <<>>
        /\ Last(trace).op = "evaluateStatus") =>
          /\ Len(chat) % 2 = 0
          /\ Alternates(chat)
          /\ Len(chat) = 2 * Count("updateState")
    /\ (/\ mode = "multi"
        /\ trace # <<>>
        /\ Last(trace).op = "evaluateStatus") =>
          LET seat == trace[Len(trace) - 1].seat
          IN /\ Len(chats[seat]) % 2 = 0
             /\ Alternates(chats[seat])
             /\ Len(chats[seat]) = 2 * UpdatesOf(seat)
             /\ TurnsOf(seat) = UpdatesOf(seat)
    /\ (mode \in {"single", "multi"} /\ pc = "done") =>
          /\ Count("complete") = Count("updateState")
          /\ Count("updateState") = Count("evaluateStatus")
          /\ Count("complete") >= 1

\* A completed gameLoop run of two turns: four messages, two calls of
\* each kind.
C39_Witness ==
    /\ mode = "single"
    /\ pc = "done"
    /\ Len(chat) = 4
    /\ Alternates(chat)
    /\ Count("complete") = 2
    /\ Count("updateState") = 2
    /\ Count("evaluateStatus") = 2

\* Trials whose promise resolved to true.
TrialsCorrect ==
    Cardinality({k \in DOMAIN chats : chats[k] = Fulfilled("true")})

\* C40: in the max-number benchmark the concurrent trials of one model
\* and list size each store their result under their own key: the entry
\* of a finished trial stays in the cache file with the value the trial
\* returned, whatever the order in which the trials settle, and when all
\* have finished the completed count read back equals trialsPerSetting,
\* with a failed model call counted as completed and incorrect.
C40_NoTrialLost ==
    mode = "maxnumber" =>
      /\ \A k \in DOMAIN chats :
            chats[k].state = "fulfilled" =>
              CacheGetResult(state, TrialKey(game, k - 1)) = chats[k].value
      /\ pc = "done" =>
            /\ parsed.completed = game.trialsPerSetting
            /\ parsed.correct = TrialsCorrect

\* Three trials finished out of order, the last started settling first
\* and one of them on a rejected call, all three read back.
C40_Witness ==
    /\ mode = "maxnumber"
    /\ pc = "done"
    /\ game.trialsPerSetting = 3
    /\ \E i, j \in DOMAIN trace :
         /\ i < j
         /\ trace[i].op = "settle" /\ trace[i].trial = 2
         /\ trace[j].op = "settle" /\ trace[j].trial = 0
    /\ \E i \in DOMAIN trace : trace[i].outcome = "rejected"
    /\ parsed.completed = 3
    /\ parsed.correct = 1

====
